---------------------------- MODULE Spec2Model ----------------------------
(***************************************************************************)
(* FinanceSaathi upload pipeline (src/src/App.tsx, function App):          *)
(* validation, simulated upload, Tesseract OCR, regular-expression field   *)
(* extraction, mock fallback and the two localStorage collections          *)
(* 'financeUploads' and 'financeExpenses'.                                 *)
(*                                                                         *)
(* Texts (OCR text, filenames, vendor names, dates, invoice numbers) are   *)
(* sequences of one-character strings, so that the regular expressions of  *)
(* the source are evaluated character by character.  Amounts are held in   *)
(* hundredths of a rupee, which makes the optional two-digit fraction of   *)
(* the amount patterns exact.  Math.random() results are fractions <<n,d>> *)
(* with 0 <= n < d.                                                        *)
(*                                                                         *)
(* Three callbacks that only drive the display are not part of the model:  *)
(* the progress interval (lines 425-433: uploadProgress in steps of 10),   *)
(* the Tesseract logger (lines 310-314: ocrProgress) and the drag-over and *)
(* drag-leave handlers (lines 465-473: isDragging).  The fields stay in    *)
(* uploadState and the handlers that are modelled assign them as the       *)
(* source does.                                                            *)
(***************************************************************************)
EXTENDS Integers, Sequences, FiniteSets, TLC

(***************************************************************************)
(* Characters                                                              *)
(***************************************************************************)
Rupee == "rupee"

Digits == <<"0", "1", "2", "3", "4", "5", "6", "7", "8", "9">>

IsDigit(c) == \E k \in 1..10 : Digits[k] = c

DigitVal(c) == (CHOOSE k \in 1..10 : Digits[k] = c) - 1

\* \s of the regular expressions
IsSpace(c) == c \in {" ", "\n", "\t"}

UpperToLower ==
  [A |-> "a", B |-> "b", C |-> "c", D |-> "d", E |-> "e", F |-> "f", G |-> "g",
   H |-> "h", I |-> "i", J |-> "j", K |-> "k", L |-> "l", M |-> "m", N |-> "n",
   O |-> "o", P |-> "p", Q |-> "q", R |-> "r", S |-> "s", T |-> "t", U |-> "u",
   V |-> "v", W |-> "w", X |-> "x", Y |-> "y", Z |-> "z"]

\* the /i flag and String.prototype.toLowerCase, one character at a time
LowerChar(c) == IF c \in DOMAIN UpperToLower THEN UpperToLower[c] ELSE c

toLowerCase(s) == [k \in 1..Len(s) |-> LowerChar(s[k])]

\* s.substring(0, n)
substring0(s, n) == SubSeq(s, 1, IF Len(s) < n THEN Len(s) ELSE n)

\* s.includes(w), case-sensitive
Includes(s, w) ==
  \E i \in 1..(Len(s) - Len(w) + 1) : SubSeq(s, i, i + Len(w) - 1) = w

\* s.startsWith(w)
startsWith(s, w) == Len(s) >= Len(w) /\ SubSeq(s, 1, Len(w)) = w

\* the literal w at position i of s, under the /i flag (w is lower case)
MatchesAt(s, i, w) ==
  /\ i + Len(w) - 1 <= Len(s)
  /\ \A k \in 1..Len(w) : LowerChar(s[i + k - 1]) = w[k]

\* s.padStart(n, c)
RECURSIVE padStart(_, _, _)
padStart(s, n, c) == IF Len(s) >= n THEN s ELSE padStart(<<c>> \o s, n, c)

\* String(n) / n.toString() of a non-negative integer
RECURSIVE NumToString(_)
NumToString(n) ==
  IF n < 10 THEN <<Digits[n + 1]>>
  ELSE NumToString(n \div 10) \o <<Digits[(n % 10) + 1]>>

\* value of a string of digits
RECURSIVE DigitsValue(_)
DigitsValue(s) ==
  IF s = <<>> THEN 0
  ELSE 10 * DigitsValue(SubSeq(s, 1, Len(s) - 1)) + DigitVal(s[Len(s)])

\* s.replace(/,/g, '')
RemoveCommas(s) == SelectSeq(s, LAMBDA c : c # ",")

\* parseFloat of a capture of the amount patterns (digits, optional ".dd"),
\* in hundredths
parseFloat(s) ==
  IF Len(s) >= 3 /\ s[Len(s) - 2] = "."
    THEN 100 * DigitsValue(SubSeq(s, 1, Len(s) - 3))
         + DigitsValue(SubSeq(s, Len(s) - 1, Len(s)))
    ELSE 100 * DigitsValue(s)

(***************************************************************************)
(* Math.random(): a fraction <<n, d>>, 0 <= n < d                          *)
(***************************************************************************)
\* Math.floor(r * k)
FloorTimes(r, k) == (r[1] * k) \div r[2]

(***************************************************************************)
(* The regular expressions of extractExpenseFromOCR                        *)
(***************************************************************************)
\* number of characters of s from position i on that satisfy \d, at most max
RECURSIVE DigitRun(_, _, _)
DigitRun(s, i, max) ==
  IF max = 0 \/ i > Len(s) \/ ~IsDigit(s[i]) THEN 0
  ELSE 1 + DigitRun(s, i + 1, max - 1)

\* (?:,\d{3})* from position i: the position after the last group
RECURSIVE ThousandsGroups(_, _)
ThousandsGroups(s, i) ==
  IF i <= Len(s) /\ s[i] = "," /\ DigitRun(s, i + 1, 3) = 3
    THEN ThousandsGroups(s, i + 4)
    ELSE i

\* (\d{1,3}(?:,\d{3})*(?:\.\d{2})?) at position i: the position after the
\* capture, or 0 when there is no match at i
NumberEnd(s, i) ==
  LET n1 == DigitRun(s, i, 3)
      j  == ThousandsGroups(s, i + n1)
  IN  IF n1 = 0 THEN 0
      ELSE IF j <= Len(s) /\ s[j] = "." /\ DigitRun(s, j + 1, 2) = 2
        THEN j + 3
        ELSE j

\* \s* from position i: the position after the run
RECURSIVE SkipSpace(_, _)
SkipSpace(s, i) ==
  IF i <= Len(s) /\ IsSpace(s[i]) THEN SkipSpace(s, i + 1) ELSE i

\* [\s:]* from position i
RECURSIVE SkipSpaceColon(_, _)
SkipSpaceColon(s, i) ==
  IF i <= Len(s) /\ (IsSpace(s[i]) \/ s[i] = ":")
    THEN SkipSpaceColon(s, i + 1) ELSE i

\* amountPattern at position i: <<start of capture, position after it>>, or
\* <<0, 0>>
amountPatternAt(s, i) ==
  IF i <= Len(s) /\ s[i] = Rupee
    THEN LET j == SkipSpace(s, i + 1)
             e == NumberEnd(s, j)
         IN  IF e = 0 THEN <<0, 0>> ELSE <<j, e>>
    ELSE <<0, 0>>

TotalKeywords ==
  << <<"t", "o", "t", "a", "l">>,
     <<"a", "m", "o", "u", "n", "t">>,
     <<"g", "r", "a", "n", "d", " ", "t", "o", "t", "a", "l">>,
     <<"n", "e", "t", " ", "a", "m", "o", "u", "n", "t">> >>

\* what follows the keyword of totalPattern, from position i
totalTailAt(s, i) ==
  LET j1 == SkipSpaceColon(s, i)
      j2 == IF j1 <= Len(s) /\ s[j1] = Rupee THEN j1 + 1 ELSE j1
      j3 == SkipSpace(s, j2)
      e  == NumberEnd(s, j3)
  IN  IF e = 0 THEN <<0, 0>> ELSE <<j3, e>>

\* totalPattern at position i: the alternatives in their order
totalPatternAt(s, i) ==
  LET hits == SelectSeq(TotalKeywords,
                LAMBDA w : MatchesAt(s, i, w)
                           /\ totalTailAt(s, i + Len(w)) # <<0, 0>>)
  IN  IF hits = <<>> THEN <<0, 0>> ELSE totalTailAt(s, i + Len(hits[1]))

\* Array.from(text.matchAll(pattern)) for the two /g patterns: the captures
\* of the successive non-overlapping matches, from position i on
RECURSIVE matchAllAmount(_, _)
matchAllAmount(s, i) ==
  IF i > Len(s) THEN <<>>
  ELSE LET m == amountPatternAt(s, i)
       IN  IF m = <<0, 0>> THEN matchAllAmount(s, i + 1)
           ELSE <<SubSeq(s, m[1], m[2] - 1)>> \o matchAllAmount(s, m[2])

RECURSIVE matchAllTotal(_, _)
matchAllTotal(s, i) ==
  IF i > Len(s) THEN <<>>
  ELSE LET m == totalPatternAt(s, i)
       IN  IF m = <<0, 0>> THEN matchAllTotal(s, i + 1)
           ELSE <<SubSeq(s, m[1], m[2] - 1)>> \o matchAllTotal(s, m[2])

\* Math.max(...amounts) of a non-empty list
RECURSIVE MathMax(_)
MathMax(xs) ==
  IF Len(xs) = 1 THEN xs[1]
  ELSE LET m == MathMax(Tail(xs)) IN IF xs[1] > m THEN xs[1] ELSE m

ParsedAmountPreferMax(text) ==
  LET totalMatches  == matchAllTotal(text, 1)
      amountMatches == matchAllAmount(text, 1)
  IN  IF Len(amountMatches) > 0
        THEN MathMax([k \in 1..Len(amountMatches) |->
                        parseFloat(RemoveCommas(amountMatches[k]))])
      ELSE IF Len(totalMatches) > 0
        THEN parseFloat(RemoveCommas(totalMatches[1]))
      ELSE 0

\* lines 211-221: the amount parsed from the text, 0 when nothing matches
ParsedAmount(text) ==
  LET totalMatches  == matchAllTotal(text, 1)
      amountMatches == matchAllAmount(text, 1)
  IN  IF Len(totalMatches) > 0
        THEN parseFloat(RemoveCommas(totalMatches[1]))
      ELSE IF Len(amountMatches) > 0
        THEN MathMax([k \in 1..Len(amountMatches) |->
                        parseFloat(RemoveCommas(amountMatches[k]))])
      ELSE 0

(***************************************************************************)
(* Names                                                                   *)
(***************************************************************************)
UnknownVendor == <<"U", "n", "k", "n", "o", "w", "n", " ", "V", "e", "n", "d", "o", "r">>

SwiggyCorporate == <<"S", "w", "i", "g", "g", "y", " ", "C", "o", "r", "p", "o", "r", "a", "t", "e">>

AmazonBusiness == <<"A", "m", "a", "z", "o", "n", " ", "B", "u", "s", "i", "n", "e", "s", "s">>

RelianceDigital == <<"R", "e", "l", "i", "a", "n", "c", "e", " ", "D", "i", "g", "i", "t", "a", "l">>

UberBusiness == <<"U", "b", "e", "r", " ", "B", "u", "s", "i", "n", "e", "s", "s">>

AirtelBusiness == <<"A", "i", "r", "t", "e", "l", " ", "B", "u", "s", "i", "n", "e", "s", "s">>

General == <<"G", "e", "n", "e", "r", "a", "l">>

FoodEntertainment == <<"F", "o", "o", "d", " ", "&", " ", "E", "n", "t", "e", "r", "t", "a", "i", "n", "m", "e", "n", "t">>

OfficeSupplies == <<"O", "f", "f", "i", "c", "e", " ", "S", "u", "p", "p", "l", "i", "e", "s">>

Travel == <<"T", "r", "a", "v", "e", "l">>

Utilities == <<"U", "t", "i", "l", "i", "t", "i", "e", "s">>

Equipment == <<"E", "q", "u", "i", "p", "m", "e", "n", "t">>

ProfessionalServices == <<"P", "r", "o", "f", "e", "s", "s", "i", "o", "n", "a", "l", " ", "S", "e", "r", "v", "i", "c", "e", "s">>

\* lines 168-171: the list of getRandomVendor
RandomVendors ==
  << SwiggyCorporate, AmazonBusiness, RelianceDigital, UberBusiness,
     AirtelBusiness,
     <<"M", "i", "c", "r", "o", "s", "o", "f", "t", " ", "I", "n", "d", "i", "a">>,
     <<"G", "o", "o", "g", "l", "e", " ", "W", "o", "r", "k", "s", "p", "a", "c", "e">> >>

\* lines 175-178 and 267: the payment methods
PaymentMethods == <<"UPI", "Credit Card", "Bank Transfer", "Cash", "Auto Debit">>

\* lines 260-264: the vendors of generateMockExpense
MockVendors ==
  << SwiggyCorporate, AmazonBusiness, RelianceDigital,
     <<"F", "l", "i", "p", "k", "a", "r", "t", " ", "B", "u", "s", "i", "n", "e", "s", "s">>,
     UberBusiness,
     <<"O", "l", "a", " ", "C", "o", "r", "p", "o", "r", "a", "t", "e">>,
     <<"B", "i", "g", "B", "a", "s", "k", "e", "t">>,
     <<"Z", "o", "m", "a", "t", "o", " ", "B", "u", "s", "i", "n", "e", "s", "s">>,
     <<"P", "a", "y", "t", "m", " ", "B", "u", "s", "i", "n", "e", "s", "s">>,
     <<"H", "D", "F", "C", " ", "B", "a", "n", "k">>,
     AirtelBusiness,
     <<"J", "i", "o", " ", "B", "u", "s", "i", "n", "e", "s", "s">> >>

\* line 266: the categories of generateMockExpense
MockCategories ==
  << OfficeSupplies, Travel, FoodEntertainment, Equipment, Utilities,
     ProfessionalServices >>

\* lines 192-198: vendorPatterns, each pattern the list of its alternatives
vendorPatterns ==
  << << <<"s", "w", "i", "g", "g", "y">>,
        <<"z", "o", "m", "a", "t", "o">> >>,
     << <<"a", "m", "a", "z", "o", "n">>,
        <<"f", "l", "i", "p", "k", "a", "r", "t">> >>,
     << <<"r", "e", "l", "i", "a", "n", "c", "e">>,
        <<"j", "i", "o">> >>,
     << <<"u", "b", "e", "r">>,
        <<"o", "l", "a">> >>,
     << <<"a", "i", "r", "t", "e", "l">>,
        <<"v", "o", "d", "a", "f", "o", "n", "e">> >> >>


(***************************************************************************)
(* The clock.  Date.now() is a millisecond count; the model keeps the      *)
(* order of the instants only.  All instants of a run fall on one day.     *)
(***************************************************************************)
\* new Date().toISOString().split('T')[0]
ISODate(ms) == <<"2", "0", "2", "5", "-", "0", "1", "-", "1", "0">>

\* new Date().getFullYear(), as the string the template literals make of it
FullYear(ms) == SubSeq(ISODate(ms), 1, 4)

(***************************************************************************)
(* extractExpenseFromOCR (lines 180-257)                                   *)
(***************************************************************************)
\* pattern.test(s) for one of the vendorPatterns
PatternTest(pattern, s) ==
  \E a \in 1..Len(pattern) : \E i \in 1..Len(s) : MatchesAt(s, i, pattern[a])

DetectedVendorNoBreak(text, filename) ==
  LET hits == SelectSeq(<<1, 2, 3, 4, 5>>,
                LAMBDA g : PatternTest(vendorPatterns[g], text)
                           \/ PatternTest(vendorPatterns[g], filename))
  IN  IF hits = <<>> THEN UnknownVendor
      ELSE << SwiggyCorporate, AmazonBusiness, RelianceDigital, UberBusiness,
              AirtelBusiness >>[hits[Len(hits)]]

\* lines 186, 200-209: the vendor found in the text or the filename
DetectedVendor(text, filename) ==
  LET hits == SelectSeq(vendorPatterns,
                LAMBDA pt : PatternTest(pt, text) \/ PatternTest(pt, filename))
      pattern == hits[1]
  IN  IF hits = <<>> THEN UnknownVendor
      ELSE IF PatternTest(pattern, <<"s", "w", "i", "g", "g", "y">>)
        THEN SwiggyCorporate
      ELSE IF PatternTest(pattern, <<"a", "m", "a", "z", "o", "n">>)
        THEN AmazonBusiness
      ELSE IF PatternTest(pattern, <<"r", "e", "l", "i", "a", "n", "c", "e">>)
        THEN RelianceDigital
      ELSE IF PatternTest(pattern, <<"u", "b", "e", "r">>)
        THEN UberBusiness
      ELSE IF PatternTest(pattern, <<"a", "i", "r", "t", "e", "l">>)
        THEN AirtelBusiness
      ELSE UnknownVendor

IsDateSep(s, i) == i <= Len(s) /\ s[i] \in {"/", "-"}

\* datePattern at position i: <<day, month, year>> as matched, or <<>>
datePatternAt(s, i) ==
  LET d  == DigitRun(s, i, 2)
      mi == i + d + 1
      m  == DigitRun(s, mi, 2)
      yi == mi + m + 1
      y  == DigitRun(s, yi, 4)
  IN  IF /\ d >= 1 /\ IsDateSep(s, i + d)
         /\ m >= 1 /\ IsDateSep(s, mi + m)
         /\ y >= 2
        THEN << SubSeq(s, i, i + d - 1), SubSeq(s, mi, mi + m - 1),
                SubSeq(s, yi, yi + y - 1) >>
        ELSE <<>>

\* dateMatches[0]: the first match of datePattern from position i on, or <<>>
RECURSIVE firstDateMatch(_, _)
firstDateMatch(s, i) ==
  IF i > Len(s) THEN <<>>
  ELSE IF datePatternAt(s, i) # <<>> THEN datePatternAt(s, i)
  ELSE firstDateMatch(s, i + 1)

ExtractedDateNoPad(text, ms) ==
  LET dm == firstDateMatch(text, 1)
  IN  IF dm = <<>> THEN ISODate(ms)
      ELSE LET fullYear == IF Len(dm[3]) = 2 THEN <<"2", "0">> \o dm[3]
                           ELSE dm[3]
           IN  fullYear \o <<"-">> \o dm[2] \o <<"-">> \o dm[1]

\* lines 188, 223-229
ExtractedDate(text, ms) ==
  LET dm == firstDateMatch(text, 1)
  IN  IF dm = <<>> THEN ISODate(ms)
      ELSE LET day      == dm[1]
               month    == dm[2]
               year     == dm[3]
               fullYear == IF Len(year) = 2 THEN <<"2", "0">> \o year ELSE year
           IN  fullYear \o <<"-">> \o padStart(month, 2, "0")
                        \o <<"-">> \o padStart(day, 2, "0")

\* lines 189, 231-236
CategoryOf(vendor) ==
  IF Includes(vendor, <<"S", "w", "i", "g", "g", "y">>)
     \/ Includes(vendor, <<"Z", "o", "m", "a", "t", "o">>)
    THEN FoodEntertainment
  ELSE IF Includes(vendor, <<"A", "m", "a", "z", "o", "n">>)
          \/ Includes(vendor, <<"F", "l", "i", "p", "k", "a", "r", "t">>)
    THEN OfficeSupplies
  ELSE IF Includes(vendor, <<"U", "b", "e", "r">>)
          \/ Includes(vendor, <<"O", "l", "a">>)
    THEN Travel
  ELSE IF Includes(vendor, <<"R", "e", "l", "i", "a", "n", "c", "e">>)
          \/ Includes(vendor, <<"J", "i", "o">>)
    THEN Utilities
  ELSE IF Includes(vendor, <<"A", "i", "r", "t", "e", "l">>)
          \/ Includes(vendor, <<"V", "o", "d", "a", "f", "o", "n", "e">>)
    THEN Utilities
  ELSE General

\* line 172
getRandomVendor(r) == RandomVendors[FloorTimes(r, Len(RandomVendors)) + 1]

\* lines 177, 272
getRandomPaymentMethod(r) ==
  PaymentMethods[FloorTimes(r, Len(PaymentMethods)) + 1]

\* lines 161-165 and 250: INV-<year>-<3 digits>
generateInvoiceNumber(ms, r) ==
  <<"I", "N", "V", "-">> \o FullYear(ms) \o <<"-">>
    \o padStart(NumToString(FloorTimes(r, 999) + 1), 3, "0")

FallbackAmountFromZero(r) == 100 * FloorTimes(r, 25000)

\* line 240: Math.floor(Math.random() * (25000 - 1250) + 1250), in hundredths
FallbackAmount(r) == 100 * (FloorTimes(r, 25000 - 1250) + 1250)

NeedsOverrideConfidenceOnly(confidence, amount) == confidence < 60

\* line 239: the condition of the low-confidence override
NeedsOverride(confidence, amount) == confidence < 60 \/ amount = 0

\* rnd: the results of the Math.random() calls, [amount, vendor, invoice,
\* payment]; ms: Date.now()
extractExpenseFromOCR(text, confidence, filename, uploadId, ms, rnd) ==
  LET vendor0  == DetectedVendor(text, filename)
      amount0  == ParsedAmount(text)
      date     == ExtractedDate(text, ms)
      category == CategoryOf(vendor0)
      low      == NeedsOverride(confidence, amount0)
      amount   == IF low THEN FallbackAmount(rnd.amount) ELSE amount0
      vendor   == IF low /\ vendor0 = UnknownVendor
                    THEN getRandomVendor(rnd.vendor) ELSE vendor0
  IN  [ id            |-> <<"exp", "ms", ms>>,
        vendor        |-> vendor,
        amount        |-> amount,
        category      |-> category,
        date          |-> date,
        invoiceNumber |-> generateInvoiceNumber(ms, rnd.invoice),
        status        |-> "processed",
        paymentMethod |-> getRandomPaymentMethod(rnd.payment),
        uploadId      |-> uploadId,
        extractedText |-> substring0(text, 500),
        confidence    |-> confidence ]

(***************************************************************************)
(* generateMockExpense (lines 259-286)                                     *)
(***************************************************************************)
\* rnd: [vendor, category, amount, payment, invoice]
generateMockExpense(uploadedFile, ms, rnd) ==
  [ id            |-> <<"exp", "ms", ms>>,
    vendor        |-> MockVendors[FloorTimes(rnd.vendor, Len(MockVendors)) + 1],
    amount        |-> 100 * (FloorTimes(rnd.amount, 23750) + 1250),
    category      |-> MockCategories[FloorTimes(rnd.category,
                                                Len(MockCategories)) + 1],
    date          |-> ISODate(ms),
    invoiceNumber |-> generateInvoiceNumber(ms, rnd.invoice),
    status        |-> "processed",
    paymentMethod |-> getRandomPaymentMethod(rnd.payment),
    uploadId      |-> uploadedFile.id,
    filename      |-> uploadedFile.filename ]

(***************************************************************************)
(* validateFile (lines 288-301); a file is [name, type, size, content]     *)
(***************************************************************************)
null == "null"

TypeMessage == "Please upload a PDF, JPG, or PNG file"

SizeMessage == "File size must be less than 5MB"

\* line 453
UploadFailedMessage == "Failed to upload file. Please try again."

validateFileTypeOnly(file) ==
  LET allowedTypes == {"application/pdf", "image/jpeg", "image/jpg", "image/png"}
  IN  IF file.type \notin allowedTypes THEN TypeMessage ELSE null

validateFile(file) ==
  LET maxSize      == 5 * 1024 * 1024
      allowedTypes == {"application/pdf", "image/jpeg", "image/jpg", "image/png"}
  IN  IF file.type \notin allowedTypes
        THEN TypeMessage
      ELSE IF file.size > maxSize
        THEN SizeMessage
      ELSE null

(***************************************************************************)
(* Bounds and inputs                                                       *)
(***************************************************************************)
\* processFile calls that pass validation, over the whole run; the k-th of
\* them is pipeline k
MaxUploads == 2

\* instants of the clock
MaxClock == 2

Pipelines == 1..MaxUploads

\* the files the user selects or drops
LimitPdf ==
  [ name |-> <<"b", "i", "l", "l", ".", "p", "d", "f">>,
    type |-> "application/pdf", size |-> 5 * 1024 * 1024,
    content |-> "pdf-bytes" ]

BigJpeg ==
  [ name |-> <<"b", "i", "g", ".", "j", "p", "g">>,
    type |-> "image/jpeg", size |-> 6 * 1024 * 1024, content |-> "big-bytes" ]

OverLimitPng ==
  [ name |-> <<"o", "v", "e", "r", ".", "p", "n", "g">>,
    type |-> "image/png", size |-> 5 * 1024 * 1024 + 1,
    content |-> "png-bytes" ]

SmallGif ==
  [ name |-> <<"a", ".", "g", "i", "f">>,
    type |-> "image/gif", size |-> 1024, content |-> "gif-bytes" ]

Files == {LimitPdf, BigJpeg, OverLimitPng, SmallGif}

\* what Tesseract.recognize resolves with: result.data.text and
\* result.data.confidence
LabeledText ==
  <<"T", "o", "t", "a", "l", ":", " ", Rupee, "1", ",", "2", "5", "0", ".",
    "5", "0">>

ZeroText == <<"t", "o", "t", "a", "l", " ", "0", ".", "0", "0">>

OcrResults ==
  { [text |-> LabeledText, confidence |-> 90],
    [text |-> LabeledText, confidence |-> 45],
    [text |-> ZeroText, confidence |-> 90] }

\* results of Math.random()
RandomDraws == { <<0, 1>>, <<23749, 23750>> }

\* the Math.random() results of one handler step
RandomVectors ==
  { [amount |-> r, vendor |-> r, category |-> r, invoice |-> r, payment |-> r]
      : r \in RandomDraws }

\* how the two localStorage.setItem calls of a persist step end: both return,
\* the first throws (QuotaExceededError), the second throws
StorageOutcomes == {"stored", "uploadsThrows", "expensesThrows"}

\* lines 68-139: the sample expenses; amounts in hundredths
sampleExpenses ==
  <<
    [ id            |-> <<"exp", "001", 0>>,
      vendor        |-> SwiggyCorporate,
      amount        |-> 100 * 2340,
      category      |-> FoodEntertainment,
      date          |-> <<"2", "0", "2", "5", "-", "0", "1", "-", "0", "8">>,
      invoiceNumber |-> <<"I", "N", "V", "-", "2", "0", "2", "5", "-", "0", "0", "1">>,
      status        |-> "processed",
      paymentMethod |-> "UPI" ],
    [ id            |-> <<"exp", "002", 0>>,
      vendor        |-> AmazonBusiness,
      amount        |-> 100 * 8750,
      category      |-> OfficeSupplies,
      date          |-> <<"2", "0", "2", "5", "-", "0", "1", "-", "0", "7">>,
      invoiceNumber |-> <<"I", "N", "V", "-", "2", "0", "2", "5", "-", "0", "0", "2">>,
      status        |-> "processed",
      paymentMethod |-> "Credit Card" ],
    [ id            |-> <<"exp", "003", 0>>,
      vendor        |-> RelianceDigital,
      amount        |-> 100 * 15000,
      category      |-> Equipment,
      date          |-> <<"2", "0", "2", "5", "-", "0", "1", "-", "0", "5">>,
      invoiceNumber |-> <<"I", "N", "V", "-", "2", "0", "2", "5", "-", "0", "0", "3">>,
      status        |-> "processed",
      paymentMethod |-> "Bank Transfer" ],
    [ id            |-> <<"exp", "004", 0>>,
      vendor        |-> UberBusiness,
      amount        |-> 100 * 1250,
      category      |-> Travel,
      date          |-> <<"2", "0", "2", "5", "-", "0", "1", "-", "0", "4">>,
      invoiceNumber |-> <<"I", "N", "V", "-", "2", "0", "2", "5", "-", "0", "0", "4">>,
      status        |-> "processed",
      paymentMethod |-> "UPI" ],
    [ id            |-> <<"exp", "005", 0>>,
      vendor        |-> <<"O", "l", "a", " ", "C", "a", "b", "s">>,
      amount        |-> 100 * 3200,
      category      |-> Travel,
      date          |-> <<"2", "0", "2", "5", "-", "0", "1", "-", "0", "6">>,
      invoiceNumber |-> <<"I", "N", "V", "-", "2", "0", "2", "5", "-", "0", "0", "5">>,
      status        |-> "processed",
      paymentMethod |-> "UPI" ],
    [ id            |-> <<"exp", "006", 0>>,
      vendor        |-> <<"H", "D", "F", "C", " ", "B", "a", "n", "k">>,
      amount        |-> 100 * 5500,
      category      |-> ProfessionalServices,
      date          |-> <<"2", "0", "2", "5", "-", "0", "1", "-", "0", "3">>,
      invoiceNumber |-> <<"I", "N", "V", "-", "2", "0", "2", "5", "-", "0", "0", "6">>,
      status        |-> "processed",
      paymentMethod |-> "Bank Transfer" ],
    [ id            |-> <<"exp", "007", 0>>,
      vendor        |-> AirtelBusiness,
      amount        |-> 100 * 2800,
      category      |-> Utilities,
      date          |-> <<"2", "0", "2", "5", "-", "0", "1", "-", "0", "2">>,
      invoiceNumber |-> <<"I", "N", "V", "-", "2", "0", "2", "5", "-", "0", "0", "7">>,
      status        |-> "processed",
      paymentMethod |-> "Auto Debit" ]
  >>

(***************************************************************************)
(* State                                                                   *)
(***************************************************************************)
VARIABLES
  uploadState,   \* React state of lines 54-62; uploadedFile is <<>> for null
  currentView,   \* line 50
  storage,       \* localStorage: key -> <<>> (no item) or <<the JSON array>>
  now,           \* Date.now()
  mounted,       \* the mount effect of lines 65-142 has run
  started,       \* number of pipelines started
  pc,            \* pipeline -> the await it is suspended at, or how it ended
  job,           \* pipeline -> [file, result, timer]: its locals
  hist,          \* pipeline -> what it has done: the number of recognize
                 \* calls, how recognize ended, the records it has stored
  call,          \* one call of extractExpenseFromOCR or generateMockExpense
                 \* taken by itself: its arguments and what it returned
  invoice,       \* the state of the invoice analyser (lines 1412-1416) and
                 \* the position of its processFile
  view,          \* the dashboard's searchTerm and selectedCategory (lines
                 \* 51-52) and what its last render computed
  ocr            \* the OCRProcessor component: its file prop, its runs of
                 \* processImage and what its callbacks reported

vars ==
  << uploadState, currentView, storage, now, mounted, started, pc, job, hist,
     call, invoice, view, ocr >>

\* the variables of the expense tracker (lines 49-1378)
trackerVars ==
  << uploadState, currentView, storage, now, mounted, started, pc, job, hist >>

initialUploadState ==
  [ isDragging |-> FALSE, isUploading |-> FALSE, uploadProgress |-> 0,
    uploadedFile |-> <<>>, isProcessing |-> FALSE, isComplete |-> FALSE,
    error |-> null ]

\* JSON.parse(localStorage.getItem(key) || '[]')
getItemOrEmpty(key) == IF storage[key] = <<>> THEN <<>> ELSE storage[key][1]

pushItemOverwrite(store, key, record) ==
  [store EXCEPT ![key] = << <<record>> >>]

\* existing.push(record); localStorage.setItem(key, JSON.stringify(existing))
pushItem(store, key, record) ==
  [store EXCEPT ![key] =
     << (IF store[key] = <<>> THEN <<>> ELSE store[key][1]) \o <<record>> >>]

getExpenses == getItemOrEmpty("financeExpenses")

getUploads == getItemOrEmpty("financeUploads")

\* no call of the extraction functions taken by itself
noCall == [fn |-> "none"]

\* lines 1412-1416: file, processing, result, dragActive as useState leaves
\* them (<<>> for null); pc and job: processFile has not been called; last:
\* how the last call of analyzeInvoiceWithAI ended
initialInvoice ==
  [ file |-> <<>>, processing |-> FALSE, result |-> <<>>,
    dragActive |-> FALSE, pc |-> "idle", job |-> <<>>, last |-> "none" ]

trackerInit ==
  /\ uploadState = initialUploadState
  /\ currentView = "home"
  /\ storage = [k \in {"financeUploads", "financeExpenses"} |-> <<>>]
  /\ now = 0
  /\ mounted = FALSE
  /\ started = 0
  /\ pc = [p \in Pipelines |-> "idle"]
  /\ job = [p \in Pipelines |-> [file |-> <<>>, result |-> <<>>, timer |-> 0]]
  /\ hist = [p \in Pipelines |->
               [recognize |-> 0, ocr |-> "none", uploads |-> <<>>,
                expenses |-> <<>>]]

\* lines 51-52, before the dashboard has rendered
initialView ==
  [ searchTerm |-> <<>>, selectedCategory |-> <<"A", "l", "l">>,
    render |-> <<>>, renders |-> 0 ]

\* OCRProcessor before it is given a file: no run of processImage, no
\* callback called (<<>> for a callback's value that was never reported)
initialOcr ==
  [ file |-> 0, runs |-> <<>>, processing |-> <<>>, text |-> <<>>,
    error |-> <<>> ]

\* the expense tracker after construction
Init ==
  /\ trackerInit
  /\ call = noCall
  /\ invoice = initialInvoice
  /\ view = initialView
  /\ ocr = initialOcr

InFlight(p) ==
  pc[p] \in {"uploading", "recognizing", "reading", "fallbackWait",
             "fallbackReading"}

(***************************************************************************)
(* The mount effect (lines 65-142)                                         *)
(***************************************************************************)
seedSampleDataAlways(store) ==
  [store EXCEPT !["financeExpenses"] = <<sampleExpenses>>]

seedSampleData(store) ==
  IF store["financeExpenses"] = <<>>
    THEN [store EXCEPT !["financeExpenses"] = <<sampleExpenses>>]
    ELSE store

Mount ==
  /\ ~mounted
  /\ mounted' = TRUE
  /\ storage' = seedSampleData(storage)
  /\ UNCHANGED << uploadState, currentView, now, started, pc, job, hist,
                  call, invoice, view, ocr >>

\* the page is loaded again: the React state and the running pipelines are
\* gone, localStorage stays
Reload ==
  /\ mounted
  /\ mounted' = FALSE
  /\ uploadState' = initialUploadState
  /\ currentView' = "home"
  /\ pc' = [p \in Pipelines |-> IF InFlight(p) THEN "aborted" ELSE pc[p]]
  /\ UNCHANGED << storage, now, started, job, hist,
                  call, invoice, view, ocr >>

Tick ==
  /\ now < MaxClock
  /\ now' = now + 1
  /\ UNCHANGED << uploadState, currentView, storage, mounted,
                  started, pc, job, hist,
                  call, invoice, view, ocr >>

(***************************************************************************)
(* processFile (lines 409-456), up to its first await                      *)
(***************************************************************************)
\* us: the upload state the caller leaves; the rejected file only sets error
processFile(file, us) ==
  LET validationError == validateFile(file)
      p == started + 1
  IN  IF validationError # null
        THEN /\ uploadState' = [us EXCEPT !.error = validationError]
             /\ UNCHANGED << started, pc, job, hist >>
        ELSE /\ started < MaxUploads
             /\ uploadState' = [us EXCEPT !.isUploading = TRUE,
                                          !.uploadProgress = 0,
                                          !.error = null]
             /\ started' = p
             /\ pc' = [pc EXCEPT ![p] = "uploading"]
             /\ job' = [job EXCEPT ![p] = [file |-> <<file>>, result |-> <<>>,
                                           timer |-> now]]
             /\ UNCHANGED hist

\* lines 458-463; the input is disabled while uploading or processing
\* (line 1082)
handleFileUpload(file) ==
  /\ mounted
  /\ currentView = "home"
  /\ ~(uploadState.isUploading \/ uploadState.isProcessing)
  /\ processFile(file, uploadState)
  /\ UNCHANGED << currentView, storage, now, mounted,
                  call, invoice, view, ocr >>

\* lines 475-482; the drop zone takes a drop in every upload state
handleDrop(file) ==
  /\ mounted
  /\ currentView = "home"
  /\ processFile(file, [uploadState EXCEPT !.isDragging = FALSE])
  /\ UNCHANGED << currentView, storage, now, mounted,
                  call, invoice, view, ocr >>

\* lines 437-446 and 304-309: the 1200 ms timer fires, the upload phase ends
\* and processFileWithOCR calls Tesseract.recognize
uploadTimeout(p) ==
  /\ pc[p] = "uploading"
  /\ now > job[p].timer
  /\ uploadState' = [uploadState EXCEPT !.isUploading = FALSE,
                                        !.uploadProgress = 100,
                                        !.isProcessing = TRUE]
  /\ hist' = [hist EXCEPT ![p].recognize = @ + 1]
  /\ pc' = [pc EXCEPT ![p] = "recognizing"]
  /\ UNCHANGED << currentView, storage, now, mounted, started, job,
                  call, invoice, view, ocr >>

\* lines 317-326: recognize resolved; the FileReader is started
recognizeResolved(p, result) ==
  /\ pc[p] = "recognizing"
  /\ job' = [job EXCEPT ![p].result = <<result>>]
  /\ pc' = [pc EXCEPT ![p] = "reading"]
  /\ hist' = [hist EXCEPT ![p].ocr = "resolved"]
  /\ UNCHANGED << uploadState, currentView, storage, now, mounted, started,
                  call, invoice, view, ocr >>

enterFallbackRethrow(p) ==
  /\ pc' = [pc EXCEPT ![p] = "failed"]
  /\ job' = job

enterFallbackRetry(p) ==
  /\ pc' = [pc EXCEPT ![p] = "uploading"]
  /\ job' = [job EXCEPT ![p].timer = now]

\* lines 359-362 and 368: the catch of processFileWithOCR calls
\* processFallbackData, which first waits 2000 ms
enterFallback(p) ==
  /\ pc' = [pc EXCEPT ![p] = "fallbackWait"]
  /\ job' = [job EXCEPT ![p].timer = now]

\* recognize rejected
recognizeRejected(p) ==
  /\ pc[p] = "recognizing"
  /\ enterFallback(p)
  /\ hist' = [hist EXCEPT ![p].ocr = "rejected"]
  /\ UNCHANGED << uploadState, currentView, storage, now, mounted, started,
                  call, invoice, view, ocr >>

\* lines 329-338
ocrUploadedFile(p) ==
  LET file == job[p].file[1]
      result == job[p].result[1]
  IN  [ id            |-> <<"upload", "ms", now>>,
        filename      |-> file.name,
        filesize      |-> file.size,
        uploadDate    |-> <<"iso", now>>,
        processed     |-> TRUE,
        fileData      |-> file.content,
        extractedText |-> result.text,
        confidence    |-> result.confidence ]

completedStateIncomplete(us, uploadedFile) ==
  [us EXCEPT !.isProcessing = FALSE, !.uploadedFile = <<uploadedFile>>]

\* lines 353-358 and 401-406
completedState(us, uploadedFile) ==
  [us EXCEPT !.isProcessing = FALSE, !.isComplete = TRUE,
             !.uploadedFile = <<uploadedFile>>]

\* lines 329-358: the FileReader of processFileWithOCR has loaded
readerLoaded(p, outcome, rnd) ==
  LET uploadedFile == ocrUploadedFile(p)
      result       == job[p].result[1]
      withUpload   == pushItem(storage, "financeUploads", uploadedFile)
      expenseData  == extractExpenseFromOCR(result.text, result.confidence,
                        uploadedFile.filename, uploadedFile.id, now, rnd)
      withExpense  == pushItem(withUpload, "financeExpenses", expenseData)
  IN  /\ pc[p] = "reading"
      /\ IF outcome = "uploadsThrows"
           THEN /\ enterFallback(p)
                /\ UNCHANGED << uploadState, storage, hist >>
         ELSE IF outcome = "expensesThrows"
           THEN /\ storage' = withUpload
                /\ hist' = [hist EXCEPT ![p].uploads = Append(@, uploadedFile)]
                /\ enterFallback(p)
                /\ UNCHANGED uploadState
         ELSE /\ storage' = withExpense
              /\ hist' = [hist EXCEPT ![p].uploads = Append(@, uploadedFile),
                                      ![p].expenses = Append(@, expenseData)]
              /\ uploadState' = completedState(uploadState, uploadedFile)
              /\ pc' = [pc EXCEPT ![p] = "complete"]
              /\ UNCHANGED job
      /\ UNCHANGED << currentView, now, mounted, started,
                  call, invoice, view, ocr >>

\* line 324: reader.onerror rejects, the catch of line 359 takes over
readerFailed(p) ==
  /\ pc[p] = "reading"
  /\ enterFallback(p)
  /\ UNCHANGED << uploadState, currentView, storage, now,
                  mounted, started, hist,
                  call, invoice, view, ocr >>

fallbackTimeoutSkipsRead(p) ==
  /\ pc[p] = "fallbackWait"
  /\ now > job[p].timer
  /\ pc' = [pc EXCEPT ![p] = "complete"]
  /\ UNCHANGED << uploadState, currentView, storage, now,
                  mounted, started, job, hist, call, invoice, view, ocr >>

\* lines 368-376: the 2000 ms timer fires, the FileReader is started
fallbackTimeout(p) ==
  /\ pc[p] = "fallbackWait"
  /\ now > job[p].timer
  /\ pc' = [pc EXCEPT ![p] = "fallbackReading"]
  /\ UNCHANGED << uploadState, currentView, storage, now,
                  mounted, started, job, hist,
                  call, invoice, view, ocr >>

fallbackUploadedFileUnflagged(p) ==
  LET file == job[p].file[1]
  IN  [ id         |-> <<"upload", "ms", now>>,
        filename   |-> file.name,
        filesize   |-> file.size,
        uploadDate |-> <<"iso", now>>,
        processed  |-> TRUE,
        fileData   |-> file.content ]

\* lines 378-386
fallbackUploadedFile(p) ==
  LET file == job[p].file[1]
  IN  [ id         |-> <<"upload", "ms", now>>,
        filename   |-> file.name,
        filesize   |-> file.size,
        uploadDate |-> <<"iso", now>>,
        processed  |-> TRUE,
        fileData   |-> file.content,
        confidence |-> 0 ]

\* lines 448-455: the catch of processFile
uploadFailed(p) ==
  /\ uploadState' = [uploadState EXCEPT
                       !.isUploading = FALSE,
                       !.error = UploadFailedMessage]
  /\ pc' = [pc EXCEPT ![p] = "failed"]

\* lines 378-406: the FileReader of processFallbackData has loaded
fallbackLoaded(p, outcome, rnd) ==
  LET uploadedFile == fallbackUploadedFile(p)
      withUpload   == pushItem(storage, "financeUploads", uploadedFile)
      expenseData  == generateMockExpense(uploadedFile, now, rnd)
      withExpense  == pushItem(withUpload, "financeExpenses", expenseData)
  IN  /\ pc[p] = "fallbackReading"
      /\ IF outcome = "uploadsThrows"
           THEN /\ uploadFailed(p)
                /\ UNCHANGED << storage, hist >>
         ELSE IF outcome = "expensesThrows"
           THEN /\ storage' = withUpload
                /\ hist' = [hist EXCEPT ![p].uploads = Append(@, uploadedFile)]
                /\ uploadFailed(p)
         ELSE /\ storage' = withExpense
              /\ hist' = [hist EXCEPT ![p].uploads = Append(@, uploadedFile),
                                      ![p].expenses = Append(@, expenseData)]
              /\ uploadState' = completedState(uploadState, uploadedFile)
              /\ pc' = [pc EXCEPT ![p] = "complete"]
      /\ UNCHANGED << currentView, now, mounted, started, job,
                  call, invoice, view, ocr >>

\* line 374: reader.onerror rejects processFallbackData
fallbackReaderFailed(p) ==
  /\ pc[p] = "fallbackReading"
  /\ uploadFailed(p)
  /\ UNCHANGED << currentView, storage, now, mounted, started,
                  job, hist,
                  call, invoice, view, ocr >>

(***************************************************************************)
(* The buttons                                                             *)
(***************************************************************************)
\* lines 484-495; "Try again" (line 984) and "Upload another file"
\* (line 1018) are rendered with an error or a completed upload
resetUpload ==
  /\ mounted
  /\ currentView = "home"
  /\ uploadState.error # null \/ uploadState.isComplete
  /\ uploadState' = initialUploadState
  /\ UNCHANGED << currentView, storage, now, mounted, started, pc, job, hist,
                  call, invoice, view, ocr >>

\* lines 497-499; "View Dashboard" (line 1012) is rendered with a completed
\* upload and no error.  The dashboard render it causes (lines 602-609) calls
\* the aggregators of lines 512-572: each reads a fresh JSON.parse of the
\* stored item and none calls setItem, so the stores stay as they are.
viewDashboard ==
  /\ mounted
  /\ currentView = "home"
  /\ uploadState.error = null
  /\ uploadState.isComplete
  /\ currentView' = "dashboard"
  /\ UNCHANGED << uploadState, storage, now, mounted, started,
                  pc, job, hist,
                  call, invoice, view, ocr >>

\* lines 501-503
goHome ==
  /\ mounted
  /\ currentView = "dashboard"
  /\ currentView' = "home"
  /\ UNCHANGED << uploadState, storage, now, mounted, started,
                  pc, job, hist,
                  call, invoice, view, ocr >>

Next ==
  \/ Mount
  \/ Reload
  \/ Tick
  \/ \E file \in Files : handleFileUpload(file)
  \/ \E file \in Files : handleDrop(file)
  \/ \E p \in Pipelines : uploadTimeout(p)
  \/ \E p \in Pipelines : \E result \in OcrResults : recognizeResolved(p, result)
  \/ \E p \in Pipelines : recognizeRejected(p)
  \/ \E p \in Pipelines : \E outcome \in StorageOutcomes :
       \E rnd \in RandomVectors : readerLoaded(p, outcome, rnd)
  \/ \E p \in Pipelines : readerFailed(p)
  \/ \E p \in Pipelines : fallbackTimeout(p)
  \/ \E p \in Pipelines : \E outcome \in StorageOutcomes :
       \E rnd \in RandomVectors : fallbackLoaded(p, outcome, rnd)
  \/ \E p \in Pipelines : fallbackReaderFailed(p)
  \/ resetUpload
  \/ viewDashboard
  \/ goHome

Spec == Init /\ [][Next]_vars

\* The uploads by themselves, for the claims about how an upload ends: the
\* page stays loaded on the upload view, recognize resolves with one result
\* and Math.random() has one outcome (neither decides how an upload ends).
UploadResult == [text |-> LabeledText, confidence |-> 90]

UploadRandom ==
  [amount |-> <<0, 1>>, vendor |-> <<0, 1>>, category |-> <<0, 1>>,
   invoice |-> <<0, 1>>, payment |-> <<0, 1>>]

recognizeReturns(p) ==
  recognizeRejected(p) \/ recognizeResolved(p, UploadResult)

readerReturns(p) ==
  \/ readerFailed(p)
  \/ \E outcome \in StorageOutcomes : readerLoaded(p, outcome, UploadRandom)

fallbackReaderReturns(p) ==
  \/ fallbackReaderFailed(p)
  \/ \E outcome \in StorageOutcomes : fallbackLoaded(p, outcome, UploadRandom)

UploadNext ==
  \/ Mount
  \/ Tick
  \/ \E file \in Files : handleFileUpload(file)
  \/ \E file \in Files : handleDrop(file)
  \/ \E p \in Pipelines : uploadTimeout(p)
  \/ \E p \in Pipelines : recognizeReturns(p)
  \/ \E p \in Pipelines : readerReturns(p)
  \/ \E p \in Pipelines : fallbackTimeout(p)
  \/ \E p \in Pipelines : fallbackReaderReturns(p)
  \/ resetUpload

\* The event loop runs every callback that is due: time passes, each timer
\* fires, and each call of Tesseract.recognize and each FileReader returns,
\* with success or with failure.
FairSpec ==
  /\ Init
  /\ [][UploadNext]_vars
  /\ WF_vars(Tick)
  /\ \A p \in Pipelines :
       /\ WF_vars(uploadTimeout(p))
       /\ WF_vars(recognizeReturns(p))
       /\ WF_vars(readerReturns(p))
       /\ WF_vars(fallbackTimeout(p))
       /\ WF_vars(fallbackReaderReturns(p))

(***************************************************************************)
(* The invoice analyser (lines 1379-1768): the second App component, which *)
(* sends the image to the OpenAI API                                       *)
(***************************************************************************)
\* file.type as characters
TypeChars(type) ==
  CASE type = "application/pdf" ->
         <<"a", "p", "p", "l", "i", "c", "a", "t", "i", "o", "n", "/", "p", "d", "f">>
    [] type = "image/jpeg" -> <<"i", "m", "a", "g", "e", "/", "j", "p", "e", "g">>
    [] type = "image/png"  -> <<"i", "m", "a", "g", "e", "/", "p", "n", "g">>
    [] type = "image/gif"  -> <<"i", "m", "a", "g", "e", "/", "g", "i", "f">>

\* lines 1436, 1446: file.type.startsWith('image/')
IsImage(file) ==
  startsWith(TypeChars(file.type), <<"i", "m", "a", "g", "e", "/">>)

\* response.choices[0]?.message?.content, as the tokens of the text: a JSON
\* object, the same object inside a markdown code fence, a sentence, and no
\* content
InvoiceJson ==
  <<"{", "vendorName", ":", "Acme Ltd", ",", "totalAmount", ":", "1250.50", "}">>

FencedJson == <<"(fence)json">> \o InvoiceJson \o <<"(fence)">>

ProseReply == <<"I", "cannot", "read", "this", "image">>

AIContents == {InvoiceJson, FencedJson, ProseReply, <<>>}

\* how openai.chat.completions.create ends
AIOutcomes ==
  {[kind |-> "rejected", message |-> "Connection error."]}
    \cup {[kind |-> "resolved", content |-> c] : c \in AIContents}

JsonPunctuation == {"{", "}", ":", ","}

\* the members of a JSON object, key : value separated by commas: their
\* number, or -1 when the tokens are no such list
RECURSIVE JsonMembers(_)
JsonMembers(ts) ==
  IF Len(ts) < 3 \/ ts[1] \in JsonPunctuation \/ ts[2] # ":"
     \/ ts[3] \in JsonPunctuation
    THEN -1
  ELSE IF Len(ts) = 3 THEN 1
  ELSE IF ts[4] # "," THEN -1
  ELSE LET rest == JsonMembers(SubSeq(ts, 5, Len(ts)))
       IN  IF rest = -1 THEN -1 ELSE rest + 1

\* line 1501: JSON.parse(content) of a flat object: <<the object>>, or <<>>
\* when it throws a SyntaxError
JSONParse(content) ==
  IF /\ Len(content) >= 2
     /\ content[1] = "{"
     /\ content[Len(content)] = "}"
     /\ \/ Len(content) = 2
        \/ JsonMembers(SubSeq(content, 2, Len(content) - 1)) > 0
    THEN << [k \in { content[i] : i \in { j \in 2..(Len(content) - 3) :
                                           content[j + 1] = ":" } } |->
               content[(CHOOSE j \in 2..(Len(content) - 3) :
                          content[j] = k /\ content[j + 1] = ":") + 2]] >>
    ELSE <<>>

SyntaxErrorMessage == "Unexpected token"

\* line 1505: the Error thrown by the catch of analyzeInvoiceWithAI
OpenAIError(message) == <<"OpenAI API error: ", message>>

\* lines 1453-1507: what analyzeInvoiceWithAI does with the way the API call
\* ended: [threw |-> FALSE, data] or [threw |-> TRUE, message]
analyzeInvoiceWithAI(outcome) ==
  IF outcome.kind = "rejected"
    THEN [threw |-> TRUE, message |-> OpenAIError(outcome.message)]
  ELSE IF outcome.content = <<>>
    THEN [threw |-> TRUE, message |-> OpenAIError("No response from OpenAI")]
  ELSE IF JSONParse(outcome.content) = <<>>
    THEN [threw |-> TRUE, message |-> OpenAIError(SyntaxErrorMessage)]
  ELSE [threw |-> FALSE, data |-> JSONParse(outcome.content)[1]]

\* how the call ended, for the record of the run
OutcomeKind(outcome) ==
  IF outcome.kind = "rejected" THEN "rejected"
  ELSE IF outcome.content = <<>> THEN "empty"
  ELSE IF JSONParse(outcome.content) = <<>> THEN "unparseable"
  ELSE "parsed"

\* lines 1419-1427
handleDrag(type) ==
  /\ invoice' = [invoice EXCEPT !.dragActive =
                   IF type \in {"dragenter", "dragover"} THEN TRUE
                   ELSE IF type = "dragleave" THEN FALSE
                   ELSE @]
  /\ UNCHANGED << trackerVars, call, view, ocr >>

\* lines 1429-1441: handleDrop of the invoice analyser
invoiceHandleDrop(file) ==
  /\ invoice' = IF IsImage(file)
                  THEN [invoice EXCEPT !.dragActive = FALSE,
                                       !.file = <<file>>, !.result = <<>>]
                  ELSE [invoice EXCEPT !.dragActive = FALSE]
  /\ UNCHANGED << trackerVars, call, view, ocr >>

\* lines 1443-1451
handleFileSelect(file) ==
  /\ invoice' = IF IsImage(file)
                  THEN [invoice EXCEPT !.file = <<file>>, !.result = <<>>]
                  ELSE invoice
  /\ UNCHANGED << trackerVars, call, view, ocr >>

\* lines 1523-1531: processFile of the invoice analyser up to its first
\* await; its button is rendered with a file and disabled while processing
\* (lines 1614, 1627)
invoiceProcessFile ==
  /\ invoice.file # <<>>
  /\ ~invoice.processing
  /\ invoice' = [invoice EXCEPT !.processing = TRUE, !.result = <<>>,
                                !.pc = "reading", !.job = invoice.file]
  /\ UNCHANGED << trackerVars, call, view, ocr >>

\* lines 1509-1521 and 1534: convertFileToBase64 resolved, the API is called
convertResolved ==
  /\ invoice.pc = "reading"
  /\ invoice' = [invoice EXCEPT !.pc = "analyzing"]
  /\ UNCHANGED << trackerVars, call, view, ocr >>

\* lines 1519 and 1539-1548: reader.onerror rejects with an event, which is
\* no Error
convertRejected ==
  /\ invoice.pc = "reading"
  /\ invoice' = [invoice EXCEPT
                   !.result = << [success |-> FALSE,
                                  error |-> <<"Unknown error occurred">>] >>,
                   !.processing = FALSE, !.pc = "idle", !.job = <<>>,
                   !.last = "readFailed"]
  /\ UNCHANGED << trackerVars, call, view, ocr >>

\* lines 1534-1548: the API call has ended
analysisReturned(outcome) ==
  LET r == analyzeInvoiceWithAI(outcome)
  IN  /\ invoice.pc = "analyzing"
      /\ invoice' = [invoice EXCEPT
                       !.result = IF r.threw
                                    THEN << [success |-> FALSE,
                                             error |-> r.message] >>
                                    ELSE << [success |-> TRUE,
                                             data |-> r.data] >>,
                       !.processing = FALSE, !.pc = "idle", !.job = <<>>,
                       !.last = OutcomeKind(outcome)]
      /\ UNCHANGED << trackerVars, call, view, ocr >>

\* lines 1551-1557; "Clear" is rendered with a file (lines 1614, 1633)
resetForm ==
  /\ invoice.file # <<>>
  /\ invoice' = [invoice EXCEPT !.file = <<>>, !.result = <<>>]
  /\ UNCHANGED << trackerVars, call, view, ocr >>

InvoiceInit ==
  /\ trackerInit
  /\ call = noCall
  /\ invoice = initialInvoice
  /\ view = initialView
  /\ ocr = initialOcr

InvoiceNext ==
  \/ \E type \in {"dragenter", "dragover", "dragleave"} : handleDrag(type)
  \/ \E file \in Files : invoiceHandleDrop(file)
  \/ \E file \in Files : handleFileSelect(file)
  \/ invoiceProcessFile
  \/ convertResolved
  \/ convertRejected
  \/ \E outcome \in AIOutcomes : analysisReturned(outcome)
  \/ resetForm

SpecInvoice == InvoiceInit /\ [][InvoiceNext]_vars

(***************************************************************************)
(* extractExpenseFromOCR and generateMockExpense taken by themselves: one  *)
(* call with given arguments and given results of Math.random()            *)
(***************************************************************************)
\* texts of receipts
\* "Invoice from Acme"
PlainText ==
  <<"I", "n", "v", "o", "i", "c", "e", " ", "f", "r", "o", "m", " ", "A",
    "c", "m", "e">>

\* "Total: ₹8,000"
EightThousandText ==
  <<"T", "o", "t", "a", "l", ":", " ", Rupee, "8", ",", "0", "0", "0">>

\* "₹9,000 Total: ₹1,250.50 ₹20,000"
MixedText ==
  <<Rupee, "9", ",", "0", "0", "0", " ", "T", "o", "t", "a", "l", ":", " ",
    Rupee, "1", ",", "2", "5", "0", ".", "5", "0", " ", Rupee, "2", "0", ",",
    "0", "0", "0">>

\* "₹500 ₹12000 ₹3000"
UnseparatedText ==
  <<Rupee, "5", "0", "0", " ", Rupee, "1", "2", "0", "0", "0", " ", Rupee,
    "3", "0", "0", "0">>

\* "₹500 ₹12,000 ₹3,000"
SeparatedText ==
  <<Rupee, "5", "0", "0", " ", Rupee, "1", "2", ",", "0", "0", "0", " ",
    Rupee, "3", ",", "0", "0", "0">>

\* "Uber ride to AMAZON office ₹450.00 on 15-08-2024"
VendorText ==
  <<"U", "b", "e", "r", " ", "r", "i", "d", "e", " ", "t", "o", " ", "A",
    "M", "A", "Z", "O", "N", " ", "o", "f", "f", "i", "c", "e", " ", Rupee,
    "4", "5", "0", ".", "0", "0", " ", "o", "n", " ", "1", "5", "-", "0",
    "8", "-", "2", "0", "2", "4">>

\* "ZOMATO order 5/1/25 amount: 320"
ZomatoText ==
  <<"Z", "O", "M", "A", "T", "O", " ", "o", "r", "d", "e", "r", " ", "5",
    "/", "1", "/", "2", "5", " ", "a", "m", "o", "u", "n", "t", ":", " ",
    "3", "2", "0">>

\* "Vodafone bill 2025-01-15 ₹799"
IsoDateText ==
  <<"V", "o", "d", "a", "f", "o", "n", "e", " ", "b", "i", "l", "l", " ",
    "2", "0", "2", "5", "-", "0", "1", "-", "1", "5", " ", Rupee, "7", "9",
    "9">>

\* "Receipt 99/99/99 total 500"
NoSuchDayText ==
  <<"R", "e", "c", "e", "i", "p", "t", " ", "9", "9", "/", "9", "9", "/",
    "9", "9", " ", "t", "o", "t", "a", "l", " ", "5", "0", "0">>

ExtractTexts ==
  { PlainText, ZeroText, LabeledText, EightThousandText, MixedText,
    UnseparatedText, SeparatedText, VendorText, ZomatoText, IsoDateText,
    NoSuchDayText }

\* result.data.confidence, on both sides of the threshold of line 239
ExtractConfidences == {45, 59, 60, 90}

\* file.name
JioFilename ==
  <<"J", "I", "O", "_", "b", "i", "l", "l", ".", "p", "n", "g">>

ExtractFilenames == {LimitPdf.name, JioFilename}

\* results of Math.random() for the amount (1250, 8000 and 24999 come out)
\* and for the index into a list (first entry, a later one, the last one)
AmountDraws == { <<0, 1>>, <<6750, 23750>>, <<23749, 23750>> }

IndexDraws == { <<0, 1>>, <<5, 7>>, <<6, 7>> }

ExtractRandoms ==
  { [amount |-> a, vendor |-> v, category |-> v, invoice |-> a, payment |-> v]
      : a \in AmountDraws, v \in IndexDraws }

\* line 330 / 379: the document the call is made for
CallUpload ==
  [ id |-> <<"upload", "ms", 0>>, filename |-> LimitPdf.name,
    filesize |-> LimitPdf.size, uploadDate |-> <<"iso", 0>>,
    processed |-> TRUE, fileData |-> LimitPdf.content, confidence |-> 0 ]

ExtractCalls ==
  { [ fn |-> "extractExpenseFromOCR", text |-> t, confidence |-> c,
      filename |-> f, rnd |-> r, result |-> <<>> ]
      : t \in ExtractTexts, c \in ExtractConfidences, f \in ExtractFilenames,
        r \in ExtractRandoms }

MockCalls ==
  { [ fn |-> "generateMockExpense", rnd |-> r, result |-> <<>> ]
      : r \in ExtractRandoms }

ExtractInit ==
  /\ trackerInit
  /\ invoice = initialInvoice
  /\ view = initialView
  /\ ocr = initialOcr
  /\ call \in ExtractCalls \cup MockCalls

\* line 346: the call returns
callExtract ==
  /\ call.fn = "extractExpenseFromOCR"
  /\ call.result = <<>>
  /\ call' = [call EXCEPT !.result =
                << extractExpenseFromOCR(call.text, call.confidence,
                     call.filename, CallUpload.id, now, call.rnd) >>]
  /\ UNCHANGED << trackerVars, invoice, view, ocr >>

\* line 394: the call returns
callMock ==
  /\ call.fn = "generateMockExpense"
  /\ call.result = <<>>
  /\ call' = [call EXCEPT !.result =
                << generateMockExpense(CallUpload, now, call.rnd) >>]
  /\ UNCHANGED << trackerVars, invoice, view, ocr >>

ExtractNext == callExtract \/ callMock

SpecExtract == ExtractInit /\ [][ExtractNext]_vars

\* the call of extractExpenseFromOCR has returned
Extracted == call.fn = "extractExpenseFromOCR" /\ call.result # <<>>

(***************************************************************************)
(* The aggregators of the dashboard (lines 505-572).  Each reads a fresh   *)
(* JSON.parse of the stored item, so each is given here as a function of   *)
(* the array getExpenses returns.                                          *)
(***************************************************************************)
\* the reducer (sum, exp) => sum + exp.amount over the first n records
RECURSIVE reduceSum(_, _)
reduceSum(expenses, n) ==
  IF n = 0 THEN 0 ELSE reduceSum(expenses, n - 1) + expenses[n].amount

\* expenses.reduce((sum, exp) => sum + exp.amount, 0)
sumAmounts(expenses) == reduceSum(expenses, Len(expenses))

\* the places of the records that are the first of their category, in
\* store order
firstOfCategory(expenses) ==
  SelectSeq([i \in 1..Len(expenses) |-> i],
            LAMBDA i : \A j \in 1..(i - 1) :
                         expenses[j].category # expenses[i].category)

\* lines 523-526 and 537-541: the object categoryTotals as the list of its
\* entries in the order Object.keys and Object.entries give them, the order
\* in which the keys were first assigned
categoryTotals(expenses) ==
  [k \in 1..Len(firstOfCategory(expenses)) |->
     LET category == expenses[firstOfCategory(expenses)[k]].category
     IN  [ category |-> category,
           amount   |-> sumAmounts(SelectSeq(expenses,
                          LAMBDA exp : exp.category = category)) ]]

totalGreaterOrEqual(totals, a, b) ==
  \E i, j \in 1..Len(totals) :
    /\ totals[i].category = a
    /\ totals[j].category = b
    /\ totals[i].amount >= totals[j].amount

\* categoryTotals[a] > categoryTotals[b] of line 529, b a key of the object;
\* a missing key reads undefined, and undefined > x is false
totalGreater(totals, a, b) ==
  \E i, j \in 1..Len(totals) :
    /\ totals[i].category = a
    /\ totals[j].category = b
    /\ totals[i].amount > totals[j].amount

\* lines 528-530: Object.keys(categoryTotals).reduce((a, b) => ..., a) from
\* the i-th key on, with accumulator a
RECURSIVE reduceTop(_, _, _)
reduceTop(totals, a, i) ==
  IF i > Len(totals) THEN a
  ELSE reduceTop(totals,
                 IF totalGreater(totals, a, totals[i].category)
                   THEN a ELSE totals[i].category,
                 i + 1)

\* lines 528-530
topCategory(expenses) ==
  reduceTop(categoryTotals(expenses), OfficeSupplies, 1)

\* new Date().toISOString().slice(0, 7)
currentMonth(ms) == SubSeq(ISODate(ms), 1, 7)

\* total / transactionCount, a quotient of two numbers, kept as the pair
\* << dividend, divisor >>
Quotient(a, b) == << a, b >>

averageTransactionUnguarded(total, transactionCount) ==
  Quotient(total, transactionCount)

\* line 516
averageTransaction(total, transactionCount) ==
  IF transactionCount > 0 THEN Quotient(total, transactionCount)
  ELSE Quotient(0, 1)

\* lines 512-533
getExpenseSummary(expenses, ms) ==
  LET total            == sumAmounts(expenses)
      transactionCount == Len(expenses)
      thisMonth        ==
        sumAmounts(SelectSeq(expenses,
                     LAMBDA exp : startsWith(exp.date, currentMonth(ms))))
  IN  [ total              |-> total,
        thisMonth          |-> thisMonth,
        transactionCount   |-> transactionCount,
        averageTransaction |-> averageTransaction(total, transactionCount),
        topCategory        |-> topCategory(expenses) ]

MathFloorPercent(amount, total) == (100 * amount) \div total

\* Math.round((amount / total) * 100): the nearest integer, a half going up
MathRoundPercent(amount, total) == (200 * amount + total) \div (2 * total)

\* lines 535-548
getCategoryData(expenses) ==
  LET totals == categoryTotals(expenses)
  IN  [k \in 1..Len(totals) |->
         [ category   |-> totals[k].category,
           amount     |-> totals[k].amount,
           percentage |-> MathRoundPercent(totals[k].amount,
                                           sumAmounts(expenses)) ]]

matchesSearchVendorOnly(expense, searchTerm) ==
  Includes(toLowerCase(expense.vendor), toLowerCase(searchTerm))

\* lines 553-555
matchesSearch(expense, searchTerm) ==
  \/ Includes(toLowerCase(expense.vendor), toLowerCase(searchTerm))
  \/ Includes(toLowerCase(expense.category), toLowerCase(searchTerm))
  \/ Includes(toLowerCase(expense.invoiceNumber), toLowerCase(searchTerm))

All == <<"A", "l", "l">>

\* line 556
matchesCategory(expense, selectedCategory) ==
  selectedCategory = All \/ expense.category = selectedCategory

\* lines 550-559
getFilteredExpenses(expenses, searchTerm, selectedCategory) ==
  SelectSeq(expenses,
            LAMBDA expense : /\ matchesSearch(expense, searchTerm)
                             /\ matchesCategory(expense, selectedCategory))

\* the days of month m of year y
DaysIn(y, m) ==
  IF m = 2
    THEN (IF (y % 4 = 0 /\ y % 100 # 0) \/ y % 400 = 0 THEN 29 ELSE 28)
  ELSE IF m \in {4, 6, 9, 11} THEN 30 ELSE 31

\* new Date(date).getTime() for a stored date: << t >> for a date string
\* YYYY-MM-DD of the calendar, <<>> for the NaN of an Invalid Date.  Of the
\* instant only the order is kept: t counts days in months of 31 days.
getTime(date) ==
  IF /\ Len(date) = 10
     /\ \A k \in {1, 2, 3, 4, 6, 7, 9, 10} : IsDigit(date[k])
     /\ date[5] = "-" /\ date[8] = "-"
    THEN LET y == DigitsValue(SubSeq(date, 1, 4))
             m == DigitsValue(SubSeq(date, 6, 7))
             d == DigitsValue(SubSeq(date, 9, 10))
         IN  IF m \in 1..12 /\ d \in 1..DaysIn(y, m)
               THEN << (y * 12 + m) * 31 + d >> ELSE <<>>
    ELSE <<>>

\* the comparator of line 564 as sort uses it: a NaN counts as +0
compareDates(a, b) ==
  LET ta == getTime(a.date)
      tb == getTime(b.date)
  IN  IF ta = <<>> \/ tb = <<>> THEN 0 ELSE tb[1] - ta[1]

\* Array.prototype.sort on an array shorter than 64 elements: a binary
\* insertion sort.  insertionPoint is its search for the place of pivot in
\* sorted[left + 1 .. right].
RECURSIVE insertionPoint(_, _, _, _)
insertionPoint(sorted, pivot, left, right) ==
  IF left >= right THEN left
  ELSE LET mid == left + (right - left) \div 2
       IN  IF compareDates(pivot, sorted[mid + 1]) < 0
             THEN insertionPoint(sorted, pivot, left, mid)
             ELSE insertionPoint(sorted, pivot, mid + 1, right)

\* pivot put at place at + 1 of sorted
insertAt(sorted, pivot, at) ==
  SubSeq(sorted, 1, at) \o << pivot >> \o SubSeq(sorted, at + 1, Len(sorted))

\* the first n elements of arr, sorted: the n-th is inserted into the first
\* n - 1, sorted
RECURSIVE sort(_, _)
sort(arr, n) ==
  IF n = 0 THEN <<>>
  ELSE LET sorted == sort(arr, n - 1)
       IN  insertAt(sorted, arr[n], insertionPoint(sorted, arr[n], 0, n - 1))

\* arr.slice(0, n)
slice0(arr, n) == SubSeq(arr, 1, IF Len(arr) < n THEN Len(arr) ELSE n)

\* lines 561-566
getRecentActivity(expenses) == slice0(sort(expenses, Len(expenses)), 10)

\* [...new Set(expenses.map(exp => exp.category))]: the categories in the
\* order of their first record
uniqueCategories(expenses) ==
  [k \in 1..Len(firstOfCategory(expenses)) |->
     expenses[firstOfCategory(expenses)[k]].category]

\* lines 568-572
getUniqueCategories(expenses) == << All >> \o uniqueCategories(expenses)

(***************************************************************************)
(* The dashboard (lines 602-609, 807-816) taken by itself: stores that     *)
(* the uploads of receipts leave behind, the search box, the category      *)
(* select and the render that calls the aggregators                        *)
(***************************************************************************)
\* the number of renders of the dashboard that are followed
MaxRenders == 3

\* "25/1/15 total 700"
OldDateText ==
  <<"2", "5", "/", "1", "/", "1", "5", " ", "t", "o", "t", "a", "l", " ",
    "7", "0", "0">>

\* "3/1/25 total 900"
ThirdOfJanuaryText ==
  <<"3", "/", "1", "/", "2", "5", " ", "t", "o", "t", "a", "l", " ", "9",
    "0", "0">>

\* "total 15,000"
FifteenThousandText ==
  <<"t", "o", "t", "a", "l", " ", "1", "5", ",", "0", "0", "0">>

\* "amazon total 6,250"
AmazonText ==
  <<"a", "m", "a", "z", "o", "n", " ", "t", "o", "t", "a", "l", " ", "6",
    ",", "2", "5", "0">>

\* the record readerLoaded stores for a receipt with this text, recognized
\* with confidence 90 at instant ms
StoredReceipt(text, ms) ==
  extractExpenseFromOCR(text, 90, LimitPdf.name, <<"upload", "ms", ms>>, ms,
                        [amount |-> <<0, 1>>, vendor |-> <<0, 1>>,
                         invoice |-> <<0, 1>>, payment |-> <<0, 1>>])

\* the texts of the receipts uploaded after the sample data was seeded
ViewReceipts ==
  { <<>>,
    << FifteenThousandText >>,
    << AmazonText >>,
    << NoSuchDayText, OldDateText, ThirdOfJanuaryText >>,
    << OldDateText, ThirdOfJanuaryText, PlainText, AmazonText >> }

\* the records stored for receipts with these texts, the k-th at instant k
StoredReceipts(texts) ==
  [k \in 1..Len(texts) |-> StoredReceipt(texts[k], k)]

\* the item financeExpenses: none, or the sample data followed by the
\* records of receipts
ViewStores ==
  { <<>> } \cup
  { << sampleExpenses \o StoredReceipts(texts) >> : texts \in ViewReceipts }

\* what is typed into the search box
SearchTerms ==
  { <<>>, <<"s", "w", "i", "g", "g", "y">>, <<"T", "R", "A", "V", "E", "L">>,
    <<"-", "0", "0", "7">>, <<"x", "y", "z">> }

\* lines 602-609: the render of the dashboard
rendered(v) ==
  [v EXCEPT
     !.renders = @ + 1,
     !.render  =
       << [ summary          |-> getExpenseSummary(getExpenses, now),
            categoryData     |-> getCategoryData(getExpenses),
            filteredExpenses |-> getFilteredExpenses(getExpenses, v.searchTerm,
                                                     v.selectedCategory),
            recentActivity   |-> getRecentActivity(getExpenses),
            categories       |-> getUniqueCategories(getExpenses) ] >>]

renderDashboardSortsStore ==
  /\ currentView = "dashboard"
  /\ view.renders < MaxRenders
  /\ view' = rendered(view)
  /\ storage' = [storage EXCEPT !["financeExpenses"] =
                   << sort(getExpenses, Len(getExpenses)) >>]
  /\ UNCHANGED << uploadState, currentView, now, mounted, started, pc, job,
                  hist, call, invoice, ocr >>

\* the dashboard renders
renderDashboard ==
  /\ currentView = "dashboard"
  /\ view.renders < MaxRenders
  /\ view' = rendered(view)
  /\ UNCHANGED << trackerVars, call, invoice, ocr >>

\* line 808 and the render it causes
setSearchTerm(value) ==
  /\ currentView = "dashboard"
  /\ view.render # <<>>
  /\ view.renders < MaxRenders
  /\ view' = rendered([view EXCEPT !.searchTerm = value])
  /\ UNCHANGED << trackerVars, call, invoice, ocr >>

\* line 816 and the render it causes; the select offers the categories of
\* the last render (lines 818-820)
setSelectedCategory(value) ==
  /\ currentView = "dashboard"
  /\ view.render # <<>>
  /\ view.renders < MaxRenders
  /\ \E k \in 1..Len(view.render[1].categories) :
       view.render[1].categories[k] = value
  /\ view' = rendered([view EXCEPT !.selectedCategory = value])
  /\ UNCHANGED << trackerVars, call, invoice, ocr >>

\* the dashboard is shown over one of the stores
ViewInit ==
  /\ uploadState = initialUploadState
  /\ currentView = "dashboard"
  /\ storage \in { [k \in {"financeUploads", "financeExpenses"} |->
                      IF k = "financeExpenses" THEN s ELSE <<>>]
                   : s \in ViewStores }
  /\ now = 0
  /\ mounted = TRUE
  /\ started = 0
  /\ pc = [p \in Pipelines |-> "idle"]
  /\ job = [p \in Pipelines |-> [file |-> <<>>, result |-> <<>>, timer |-> 0]]
  /\ hist = [p \in Pipelines |->
               [recognize |-> 0, ocr |-> "none", uploads |-> <<>>,
                expenses |-> <<>>]]
  /\ call = noCall
  /\ invoice = initialInvoice
  /\ view = initialView
  /\ ocr = initialOcr

ViewNext ==
  \/ renderDashboard
  \/ \E value \in SearchTerms : setSearchTerm(value)
  \/ \E value \in { All, Travel, General, OfficeSupplies } :
       setSelectedCategory(value)

SpecView == ViewInit /\ [][ViewNext]_vars

(***************************************************************************)
(* The OCRProcessor component (src/unnamed/part_001) and                   *)
(* extractTextFromImage (src/unnamed/part_000).  A run of processImage is  *)
(* [file, pc]: the file its closure holds and the await it is suspended    *)
(* at ("reading", "extracting") or how it ended ("delivered", "failed").   *)
(* Files are numbered in the order in which the parent supplies them.      *)
(***************************************************************************)
\* the number of files the parent supplies
MaxFiles == 3

NoTextFound == <<"No text found">>

\* what the API call of extractTextFromImage comes back with: the text read
\* off the image, no content, or a rejection
ApiOutcomes == {"content", "empty", "rejected"}

\* part_000 lines 9-40, for the image of file f
extractTextFromImage(f, outcome) ==
  IF outcome = "rejected"
    THEN [threw |-> TRUE,
          message |-> "Failed to extract text using OpenAI API"]
  ELSE [threw |-> FALSE,
        text  |-> IF outcome = "content" THEN <<"text of", f>>
                  ELSE NoTextFound]

runInFlight(r) == ocr.runs[r].pc \in {"reading", "extracting"}

\* part_001 lines 50-54 and 17-23: the parent supplies another file, the
\* effect calls processImage, which runs up to its first await
fileChanged ==
  /\ ocr.file < MaxFiles
  /\ ocr' = [ocr EXCEPT
               !.file = @ + 1,
               !.runs = Append(@, [file |-> ocr.file + 1, pc |-> "reading"]),
               !.processing = << TRUE >>,
               !.error = << "" >>]
  /\ UNCHANGED << trackerVars, call, invoice, view >>

\* part_001 lines 37-45 and 23-26: the reader has loaded, the API is called
fileToBase64Resolved(r) ==
  /\ ocr.runs[r].pc = "reading"
  /\ ocr' = [ocr EXCEPT !.runs[r].pc = "extracting"]
  /\ UNCHANGED << trackerVars, call, invoice, view >>

\* part_001 lines 46 and 29-34: reader.onerror rejects with an event, which
\* is no Error
fileToBase64Rejected(r) ==
  /\ ocr.runs[r].pc = "reading"
  /\ ocr' = [ocr EXCEPT !.runs[r].pc = "failed",
                        !.error = << "Failed to process image" >>,
                        !.processing = << FALSE >>]
  /\ UNCHANGED << trackerVars, call, invoice, view >>

\* part_001 lines 26-34: extractTextFromImage has returned or thrown
extractTextReturned(r, outcome) ==
  LET result == extractTextFromImage(ocr.runs[r].file, outcome)
  IN  /\ ocr.runs[r].pc = "extracting"
      /\ ocr' = IF result.threw
                  THEN [ocr EXCEPT !.runs[r].pc = "failed",
                                   !.error = << result.message >>,
                                   !.processing = << FALSE >>]
                  ELSE [ocr EXCEPT !.runs[r].pc = "delivered",
                                   !.text = << [file |-> ocr.runs[r].file,
                                                text |-> result.text] >>,
                                   !.processing = << FALSE >>]
      /\ UNCHANGED << trackerVars, call, invoice, view >>

OcrInit ==
  /\ trackerInit
  /\ call = noCall
  /\ invoice = initialInvoice
  /\ view = initialView
  /\ ocr = initialOcr

OcrNext ==
  \/ fileChanged
  \/ \E r \in 1..Len(ocr.runs) : fileToBase64Resolved(r)
  \/ \E r \in 1..Len(ocr.runs) : fileToBase64Rejected(r)
  \/ \E r \in 1..Len(ocr.runs) : \E outcome \in ApiOutcomes :
       extractTextReturned(r, outcome)

SpecOCR == OcrInit /\ [][OcrNext]_vars

(***************************************************************************)
(* Properties of the upload pipeline                                       *)
(***************************************************************************)
InSeq(seq, x) == \E i \in 1..Len(seq) : seq[i] = x

IsPrefix(a, b) == Len(a) <= Len(b) /\ SubSeq(b, 1, Len(a)) = a

\* the expense records of the store that point at document doc
ExpensesOf(doc) ==
  { j \in 1..Len(getExpenses) :
      /\ "uploadId" \in DOMAIN getExpenses[j]
      /\ getExpenses[j].uploadId = doc.id }

\* number of records pipelines 1..n have stored under key "uploads" or
\* "expenses"
RECURSIVE StoredCount(_, _)
StoredCount(key, n) ==
  IF n = 0 THEN 0 ELSE Len(hist[n][key]) + StoredCount(key, n - 1)

Ended(p) == pc[p] \in {"complete", "failed"}

\* C1 (as claimed): every document of 'financeUploads' has exactly one expense
\* record in 'financeExpenses' whose uploadId is its id, and one submitted
\* file adds at most one document.
C1_DocumentHasOneExpense ==
  /\ \A i \in 1..Len(getUploads) : Cardinality(ExpensesOf(getUploads[i])) = 1
  /\ \A p \in Pipelines : Len(hist[p].uploads) <= 1

C3_AmountsPositive ==
  \A i \in 1..Len(getExpenses) : getExpenses[i].amount > 0

\* a text whose parsed amount is 0 went through the OCR path into the store
C3_Witness ==
  \E p \in Pipelines :
    /\ pc[p] = "complete"
    /\ hist[p].ocr = "resolved"
    /\ Len(hist[p].expenses) = 1
    /\ "extractedText" \in DOMAIN hist[p].expenses[1]
    /\ hist[p].expenses[1].confidence >= 60
    /\ ParsedAmount(hist[p].expenses[1].extractedText) = 0
    /\ InSeq(getExpenses, hist[p].expenses[1])

\* the files C4 is about: a media type outside PDF, JPEG, PNG, or a size above
\* 5 MB
C4_Unacceptable(file) ==
  \/ file.type \notin {"application/pdf", "image/jpeg", "image/jpg", "image/png"}
  \/ file.size > 5 * 1024 * 1024

\* C4: a processFile call (from the input or from a drop) on such a file sets
\* a validation message and does nothing else: isUploading and isProcessing
\* keep their values, no pipeline starts (so recognize is never called for
\* it) and both stores are unchanged.
C4_InvalidFileHalts ==
  [][ \A file \in Files :
        (C4_Unacceptable(file) /\ (handleFileUpload(file) \/ handleDrop(file)))
          => /\ uploadState'.error \in {TypeMessage, SizeMessage}
             /\ uploadState'.isUploading = uploadState.isUploading
             /\ uploadState'.isProcessing = uploadState.isProcessing
             /\ UNCHANGED << storage, started, pc, job, hist >> ]_vars

C4_Witness ==
  /\ uploadState.error = SizeMessage
  /\ started = 0
  /\ storage["financeUploads"] = <<>>

C6_SingleInFlight ==
  Cardinality({p \in Pipelines : InFlight(p)}) <= 1

\* C7: no append is lost: each store holds every record every pipeline has
\* written to it, beside the samples.
C7_NoAppendLost ==
  /\ Len(getUploads) = StoredCount("uploads", MaxUploads)
  /\ Len(getExpenses) =
       (IF storage["financeExpenses"] = <<>> THEN 0 ELSE Len(sampleExpenses))
       + StoredCount("expenses", MaxUploads)
  /\ \A p \in Pipelines :
       /\ \A k \in 1..Len(hist[p].uploads) : InSeq(getUploads, hist[p].uploads[k])
       /\ \A k \in 1..Len(hist[p].expenses) :
            InSeq(getExpenses, hist[p].expenses[k])

\* two pipelines overlapped: the one started second stored its records first
C7_Witness ==
  /\ pc[1] = "complete"
  /\ pc[2] = "complete"
  /\ Len(getUploads) = 2
  /\ getUploads[1] = hist[2].uploads[1]
  /\ getUploads[2] = hist[1].uploads[1]

\* C8 (as claimed): no two expense records share an id, and no two documents
\* share an id.
C8_IdsUnique ==
  /\ \A i, j \in 1..Len(getExpenses) :
       i # j => getExpenses[i].id # getExpenses[j].id
  /\ \A i, j \in 1..Len(getUploads) :
       i # j => getUploads[i].id # getUploads[j].id

\* C9: every step leaves the old contents of both stores as a prefix of the
\* new contents.
C9_AppendOnly ==
  [][ /\ IsPrefix(getExpenses, getExpenses')
      /\ IsPrefix(getUploads, getUploads') ]_vars

\* the page was loaded again over a seeded store, an upload was stored and
\* the dashboard is shown
C9_Witness ==
  /\ mounted
  /\ currentView = "dashboard"
  /\ \E p \in Pipelines : pc[p] = "aborted"
  /\ Len(getExpenses) > Len(sampleExpenses)
  /\ Len(getUploads) > 0

\* C10: a pipeline calls recognize at most once, and after recognize has
\* failed it is in the fallback or has ended, never back before recognize.
C10_RecognizeAtMostOnce ==
  \A p \in Pipelines :
    /\ hist[p].recognize <= 1
    /\ hist[p].ocr = "rejected" =>
         /\ hist[p].recognize = 1
         /\ pc[p] \in {"fallbackWait", "fallbackReading", "complete", "failed",
                       "aborted"}

C10_Witness ==
  \E p \in Pipelines :
    /\ hist[p].ocr = "rejected"
    /\ hist[p].recognize = 1
    /\ pc[p] = "complete"
    /\ Len(hist[p].uploads) = 1

ClockExhausted(p) ==
  /\ pc[p] \in {"uploading", "fallbackWait"}
  /\ now = MaxClock
  /\ job[p].timer = MaxClock

C13_AcquisitionFirst ==
  \A p \in Pipelines :
    /\ pc[p] \in {"reading", "fallbackWait", "fallbackReading", "complete",
                  "failed"} => hist[p].ocr # "none"
    /\ pc[p] \in {"idle", "uploading", "recognizing"} =>
         /\ hist[p].ocr = "none"
         /\ hist[p].uploads = <<>>
         /\ hist[p].expenses = <<>>
    /\ pc[p] = "complete" =>
         /\ Len(hist[p].expenses) = 1
         /\ InSeq(getExpenses, hist[p].expenses[1])
         /\ InSeq(getUploads, hist[p].uploads[Len(hist[p].uploads)])

C12_UnparseableFallsBack ==
  (invoice.last = "unparseable" /\ invoice.result # <<>>) =>
     invoice.result[1].success

\* the range C14 and C15 name, for an amount in hundredths: a whole number of
\* rupees from 1250 to 25000
C14_InRange(amount) ==
  /\ amount % 100 = 0
  /\ amount >= 100 * 1250
  /\ amount <= 100 * 25000

\* C14: when confidence < 60 or the parsed amount is 0, the amount of the
\* record of extractExpenseFromOCR is a whole number in [1250, 25000]; so is
\* the amount of the record of generateMockExpense.
C14_OverrideAmountInRange ==
  /\ (Extracted /\ (call.confidence < 60 \/ ParsedAmount(call.text) = 0)) =>
       C14_InRange(call.result[1].amount)
  /\ (call.fn = "generateMockExpense" /\ call.result # <<>>) =>
       C14_InRange(call.result[1].amount)

\* confidence 90 and no amount in the text: the override fired
C14_Witness ==
  /\ Extracted
  /\ call.text = PlainText
  /\ call.confidence = 90
  /\ call.result[1].amount = 100 * 24999

\* C15 (as claimed): with confidence < 60 and a parsed amount A, the amount
\* of the record is never A, whatever Math.random() returns.
C15_OriginalAmountReplaced ==
  (Extracted /\ call.confidence < 60 /\ ParsedAmount(call.text) > 0) =>
     call.result[1].amount # ParsedAmount(call.text)

\* the value of the first match of totalPattern in the text, scanning from
\* the left: <<value>>, or <<>> when no position matches
C16_FirstLabeled(text) ==
  LET starts == { i \in 1..Len(text) : totalPatternAt(text, i) # <<0, 0>> }
  IN  IF starts = {} THEN <<>>
      ELSE LET i == CHOOSE k \in starts : \A j \in starts : k <= j
               m == totalPatternAt(text, i)
           IN  << parseFloat(RemoveCommas(SubSeq(text, m[1], m[2] - 1))) >>

\* C16: for a text with a labeled amount, the parsed amount is the value of
\* the first labeled match, whatever unlabeled amounts stand beside it
\* ("Rs 9,000 Total: Rs 1,250.50 Rs 20,000" gives 1250.50), and it is the
\* amount of the record when the override does not fire.
C16_LabeledTotalWins ==
  Extracted =>
    /\ C16_FirstLabeled(call.text) # <<>> =>
         /\ ParsedAmount(call.text) = C16_FirstLabeled(call.text)[1]
         /\ (call.confidence >= 60 /\ ParsedAmount(call.text) # 0) =>
              call.result[1].amount = C16_FirstLabeled(call.text)[1]
    /\ call.text = MixedText => ParsedAmount(call.text) = 125050
    /\ call.text = ZomatoText => ParsedAmount(call.text) = 32000

\* a labeled total smaller than two unlabeled amounts went into the record
C16_Witness ==
  /\ Extracted
  /\ call.text = MixedText
  /\ call.confidence = 60
  /\ call.result[1].amount = 125050
  /\ Len(matchAllAmount(call.text, 1)) = 3

\* the position after the digits and commas that start at position i
RECURSIVE C17_NumberRunEnd(_, _)
C17_NumberRunEnd(s, i) ==
  IF i <= Len(s) /\ (IsDigit(s[i]) \/ s[i] = ",")
    THEN C17_NumberRunEnd(s, i + 1) ELSE i

\* the value, in hundredths, of the number written from position i on: its
\* digits with or without thousands separators, and two decimals if any
C17_WrittenValue(s, i) ==
  LET e == C17_NumberRunEnd(s, i)
      whole == DigitsValue(RemoveCommas(SubSeq(s, i, e - 1)))
  IN  IF e + 2 <= Len(s) /\ s[e] = "." /\ IsDigit(s[e + 1]) /\ IsDigit(s[e + 2])
        THEN 100 * whole + DigitsValue(SubSeq(s, e + 1, e + 2))
        ELSE 100 * whole

\* the values of the amounts written after a currency glyph
C17_WrittenAmounts(text) ==
  { C17_WrittenValue(text, SkipSpace(text, i + 1)) :
      i \in { k \in 1..Len(text) :
                /\ text[k] = Rupee
                /\ SkipSpace(text, k + 1) <= Len(text)
                /\ IsDigit(text[SkipSpace(text, k + 1)]) } }

\* C17 (as claimed): without a labeled match, the parsed amount is the
\* largest of the amounts written after a currency glyph, with or without
\* thousands separators.
C17_MaxOfWrittenAmounts ==
  (Extracted /\ matchAllTotal(call.text, 1) = <<>>
     /\ C17_WrittenAmounts(call.text) # {}) =>
    \A v \in C17_WrittenAmounts(call.text) : ParsedAmount(call.text) >= v

\* C18 (as claimed): the category of the record is the lookup of the vendor
\* of the record.
C18_CategoryFollowsVendor ==
  Extracted => call.result[1].category = CategoryOf(call.result[1].vendor)

\* the canonical names of the keyword groups, in their priority order
C19_GroupNames ==
  << SwiggyCorporate, AmazonBusiness, RelianceDigital, UberBusiness,
     AirtelBusiness >>

\* group g has a keyword in s, whatever the case of the letters
C19_GroupIn(g, s) ==
  \E a \in 1..Len(vendorPatterns[g]) :
    Includes(toLowerCase(s), vendorPatterns[g][a])

\* the name of the first group with a keyword in the text or the filename
C19_ExpectedVendor(text, filename) ==
  LET groups == { g \in 1..5 : C19_GroupIn(g, text) \/ C19_GroupIn(g, filename) }
  IN  IF groups = {} THEN UnknownVendor
      ELSE C19_GroupNames[CHOOSE g \in groups : \A h \in groups : g <= h]

\* C19: the detected vendor is the canonical name of the first keyword group,
\* in priority order, with a keyword in the text or the filename in any case,
\* 'Unknown Vendor' without one; with confidence >= 60 and a non-zero parsed
\* amount it is the vendor of the record.
C19_FirstGroupWins ==
  Extracted =>
    /\ DetectedVendor(call.text, call.filename)
         = C19_ExpectedVendor(call.text, call.filename)
    /\ (call.confidence >= 60 /\ ParsedAmount(call.text) # 0) =>
         call.result[1].vendor = C19_ExpectedVendor(call.text, call.filename)

\* the text names Uber before Amazon, the filename names Jio: Amazon, the
\* group of highest priority, is the vendor
C19_Witness ==
  /\ Extracted
  /\ call.text = VendorText
  /\ call.filename = JioFilename
  /\ call.confidence = 90
  /\ call.result[1].vendor = AmazonBusiness

\* s[i..j] is a run of digits
C20_AllDigits(s, i, j) == j <= Len(s) /\ \A k \in i..j : IsDigit(s[k])

\* the matches of D[/-]M[/-]Y in the text: <<start, digits of the day, of the
\* month, of the year>>
C20_Matches(text) ==
  { c \in (1..Len(text)) \X (1..2) \X (1..2) \X (2..4) :
      LET i == c[1]
          mi == c[1] + c[2] + 1
          yi == c[1] + c[2] + c[3] + 2
      IN  /\ C20_AllDigits(text, i, i + c[2] - 1)
          /\ IsDateSep(text, mi - 1)
          /\ C20_AllDigits(text, mi, mi + c[3] - 1)
          /\ IsDateSep(text, yi - 1)
          /\ C20_AllDigits(text, yi, yi + c[4] - 1) }

\* the first of them: the leftmost start, each part as long as it can be
C20_FirstMatch(text) ==
  CHOOSE c \in C20_Matches(text) :
    \A d \in C20_Matches(text) :
      \/ c[1] < d[1]
      \/ c[1] = d[1] /\ c[2] > d[2]
      \/ c[1] = d[1] /\ c[2] = d[2] /\ c[3] > d[3]
      \/ c[1] = d[1] /\ c[2] = d[2] /\ c[3] = d[3] /\ c[4] >= d[4]

\* year-month-day of that match: day and month padded to 2 digits, "20" put
\* before a 2-digit year
C20_ExpectedDate(text) ==
  LET c == C20_FirstMatch(text)
      day == SubSeq(text, c[1], c[1] + c[2] - 1)
      month == SubSeq(text, c[1] + c[2] + 1, c[1] + c[2] + c[3])
      year == SubSeq(text, c[1] + c[2] + c[3] + 2, c[1] + c[2] + c[3] + c[4] + 1)
  IN  (IF c[4] = 2 THEN <<"2", "0">> ELSE <<>>) \o year \o <<"-">>
        \o (IF c[3] = 1 THEN <<"0">> ELSE <<>>) \o month \o <<"-">>
        \o (IF c[2] = 1 THEN <<"0">> ELSE <<>>) \o day

\* C20: the date of the record is built from the first D[/-]M[/-]Y match of
\* the text as year-month-day, day and month padded to 2 digits and a 2-digit
\* year prefixed with "20" ("5/1/25" gives 2025-01-05); without a match it is
\* the processing date.
C20_DateFromFirstMatch ==
  Extracted =>
    /\ C20_Matches(call.text) # {} =>
         call.result[1].date = C20_ExpectedDate(call.text)
    /\ C20_Matches(call.text) = {} => call.result[1].date = ISODate(now)
    /\ call.text = ZomatoText => call.result[1].date = <<"2", "0", "2", "5", "-", "0", "1", "-", "0", "5">>
    /\ call.text = VendorText => call.result[1].date = <<"2", "0", "2", "4", "-", "0", "8", "-", "1", "5">>

\* "5/1/25" was read as 2025-01-05
C20_Witness ==
  /\ Extracted
  /\ call.text = ZomatoText
  /\ call.result[1].date = <<"2", "0", "2", "5", "-", "0", "1", "-", "0", "5">>

(***************************************************************************)
(* Properties of the dashboard's aggregators                               *)
(***************************************************************************)
\* the amounts of the records i..Len(expenses), added up
RECURSIVE C21_SumFrom(_, _)
C21_SumFrom(expenses, i) ==
  IF i > Len(expenses) THEN 0
  ELSE expenses[i].amount + C21_SumFrom(expenses, i + 1)

\* C21: the summary of a render has total = the sum of the amounts of the
\* stored records, transactionCount = their number and averageTransaction
\* = total / transactionCount; over an empty store it has total 0,
\* thisMonth 0, transactionCount 0, averageTransaction 0 and topCategory
\* 'Office Supplies', and no quotient has the divisor 0.
C21_SummaryOfStore ==
  view.render # <<>> =>
    LET summary == view.render[1].summary
        n       == Len(getExpenses)
        avg     == summary.averageTransaction
    IN  /\ summary.total = C21_SumFrom(getExpenses, 1)
        /\ summary.transactionCount = n
        /\ avg[2] # 0
        /\ avg[1] * n = summary.total * avg[2]
        /\ n = 0 => /\ summary.total = 0
                    /\ summary.thisMonth = 0
                    /\ avg[1] = 0
                    /\ summary.topCategory = OfficeSupplies

\* the dashboard has rendered over an empty store
C21_Witness == view.render # <<>> /\ getExpenses = <<>>

\* the summed amount of the records of category c
C22_CategorySum(expenses, c) ==
  C21_SumFrom(SelectSeq(expenses, LAMBDA exp : exp.category = c), 1)

\* the categories with the highest summed amount
C22_Highest(expenses) ==
  { c \in { expenses[i].category : i \in 1..Len(expenses) } :
      \A i \in 1..Len(expenses) :
        C22_CategorySum(expenses, c)
          >= C22_CategorySum(expenses, expenses[i].category) }

\* the place of the first record of category c
C22_FirstRecord(expenses, c) ==
  CHOOSE i \in 1..Len(expenses) :
    /\ expenses[i].category = c
    /\ \A j \in 1..(i - 1) : expenses[j].category # c

\* C22 as stated: over a non-empty store topCategory is the category with
\* the highest summed amount and, of several such, the one met first in
\* store order.
C22_TopCategoryFirstOfTied ==
  (view.render # <<>> /\ getExpenses # <<>>) =>
    LET top == view.render[1].summary.topCategory
    IN  /\ top \in C22_Highest(getExpenses)
        /\ \A c \in C22_Highest(getExpenses) :
             C22_FirstRecord(getExpenses, top)
               <= C22_FirstRecord(getExpenses, c)

\* C22 as amended: over a non-empty store topCategory is the category with
\* the highest summed amount and, of several such, the one met last in
\* store order (the one whose first record comes last).
C22_TopCategoryLastOfTied ==
  (view.render # <<>> /\ getExpenses # <<>>) =>
    LET top == view.render[1].summary.topCategory
    IN  /\ top \in C22_Highest(getExpenses)
        /\ \A c \in C22_Highest(getExpenses) :
             C22_FirstRecord(getExpenses, top)
               >= C22_FirstRecord(getExpenses, c)

\* rendered over a store in which two categories share the highest sum
C22_Witness ==
  /\ view.render # <<>>
  /\ getExpenses # <<>>
  /\ Cardinality(C22_Highest(getExpenses)) >= 2

\* the percentages of the entries i..Len(data), added up
RECURSIVE C23_PercentFrom(_, _)
C23_PercentFrom(data, i) ==
  IF i > Len(data) THEN 0
  ELSE data[i].percentage + C23_PercentFrom(data, i + 1)

\* C23: over a non-empty store the category data has one entry for each
\* category of a record, the percentage of an entry is the integer nearest
\* to 100 * categorySum / grandTotal (a half going up), and the percentages
\* add up to 100 give or take the number of categories.
C23_PercentagesOfStore ==
  (view.render # <<>> /\ getExpenses # <<>>) =>
    LET data  == view.render[1].categoryData
        total == C21_SumFrom(getExpenses, 1)
        sum   == C23_PercentFrom(data, 1)
    IN  /\ { data[k].category : k \in 1..Len(data) }
             = { getExpenses[i].category : i \in 1..Len(getExpenses) }
        /\ \A j, k \in 1..Len(data) :
             data[j].category = data[k].category => j = k
        /\ \A k \in 1..Len(data) :
             LET part == C22_CategorySum(getExpenses, data[k].category)
                 p    == data[k].percentage
             IN  /\ data[k].amount = part
                 /\ (2 * p - 1) * total <= 200 * part
                 /\ 200 * part < (2 * p + 1) * total
        /\ sum - 100 <= Len(data)
        /\ 100 - sum <= Len(data)

\* rendered over a store whose percentages do not add up to 100
C23_Witness ==
  /\ view.render # <<>>
  /\ Len(view.render[1].categoryData) >= 2
  /\ C23_PercentFrom(view.render[1].categoryData, 1) # 100

\* s and t are the same text but for the case of the letters
C24_SameButCase(s, t) ==
  /\ Len(s) = Len(t)
  /\ \A k \in 1..Len(s) :
       \/ s[k] = t[k]
       \/ (s[k] \in DOMAIN UpperToLower /\ UpperToLower[s[k]] = t[k])
       \/ (t[k] \in DOMAIN UpperToLower /\ UpperToLower[t[k]] = s[k])

\* query is within s, whatever the case of the letters
C24_Within(query, s) ==
  \E i \in 0..(Len(s) - Len(query)) :
    C24_SameButCase(query, SubSeq(s, i + 1, i + Len(query)))

\* the record is one the filter is to keep
C24_Wanted(expense) ==
  /\ \/ C24_Within(view.searchTerm, expense.vendor)
     \/ C24_Within(view.searchTerm, expense.category)
     \/ C24_Within(view.searchTerm, expense.invoiceNumber)
  /\ view.selectedCategory # All => expense.category = view.selectedCategory

\* C24: the filtered expenses of a render are the stored records, in store
\* order, of which the vendor, the category or the invoice number contains
\* the search term whatever the case and, unless the selected category is
\* 'All', of which the category is the selected one.
C24_FilteredExactly ==
  view.render # <<>> =>
    view.render[1].filteredExpenses = SelectSeq(getExpenses, C24_Wanted)

\* rendered with a search term in capitals and a category selected, some
\* records kept and some left out
C24_Witness ==
  /\ view.render # <<>>
  /\ view.searchTerm = <<"T", "R", "A", "V", "E", "L">>
  /\ view.selectedCategory = Travel
  /\ view.render[1].filteredExpenses # <<>>
  /\ Len(view.render[1].filteredExpenses) < Len(getExpenses)

\* the place of record r in the store
C25_PlaceOf(r) == CHOOSE i \in 1..Len(getExpenses) : getExpenses[i] = r

\* a is dated later than b (both dates being dates of the calendar)
C25_Later(a, b) ==
  /\ getTime(a.date) # <<>>
  /\ getTime(b.date) # <<>>
  /\ getTime(a.date)[1] > getTime(b.date)[1]

\* C25 as stated: the recent activity of a render has at most 10 records,
\* they are the latest dated of the store, they are in descending order
\* of date, and records of one date are in store order.
C25_RecentSortedDescending ==
  view.render # <<>> =>
    LET recent == view.render[1].recentActivity
    IN  /\ Len(recent) <= 10
        /\ Len(recent) = (IF Len(getExpenses) < 10 THEN Len(getExpenses)
                          ELSE 10)
        /\ \A i, j \in 1..Len(recent) :
             i < j => /\ ~C25_Later(recent[j], recent[i])
                      /\ recent[i].date = recent[j].date =>
                           C25_PlaceOf(recent[i]) < C25_PlaceOf(recent[j])
        /\ \A k \in 1..Len(getExpenses) :
             (\A i \in 1..Len(recent) : recent[i] # getExpenses[k]) =>
               \A i \in 1..Len(recent) : ~C25_Later(getExpenses[k], recent[i])

C27_IdleWhenNothingInFlight ==
  (\A p \in Pipelines : ~InFlight(p)) =>
    ~uploadState.isUploading /\ ~uploadState.isProcessing

\* C28 as stated: in the OCRProcessor the flag reported last through
\* onProcessingChange is true whenever a run of processImage is in flight,
\* and once every run has ended, the run for the file supplied last having
\* delivered its text, the text delivered last through onTextExtracted is
\* the text of that file.
C28_FlagAndTextFollowLastFile ==
  /\ (\E r \in 1..Len(ocr.runs) : runInFlight(r)) => ocr.processing = << TRUE >>
  /\ ( /\ ocr.runs # <<>>
       /\ \A r \in 1..Len(ocr.runs) : ~runInFlight(r)
       /\ ocr.runs[Len(ocr.runs)].pc = "delivered" )
     => ocr.text[1].file = ocr.file

\* C29 as stated: in the invoice analyser a result that is set was
\* produced from the file that is selected: a run of processFile started
\* for a file never sets its result after that file was cleared by
\* resetForm or replaced by handleFileSelect or handleDrop, so that a
\* result is never shown without a file.
C29_ResultOfSelectedFile ==
  [][ invoice'.result # <<>> =>
        /\ invoice'.file # <<>>
        /\ invoice.result = <<>> => << invoice.job >> = << invoice'.file >>
    ]_vars

\* the text is a date of the calendar written YYYY-MM-DD
C30_CalendarDate(date) ==
  /\ Len(date) = 10
  /\ \A k \in {1, 2, 3, 4, 6, 7, 9, 10} : IsDigit(date[k])
  /\ date[5] = "-"
  /\ date[8] = "-"
  /\ LET y == DigitsValue(SubSeq(date, 1, 4))
         m == DigitsValue(SubSeq(date, 6, 7))
         d == DigitsValue(SubSeq(date, 9, 10))
     IN  /\ m >= 1 /\ m <= 12
         /\ d >= 1
         /\ d <= (IF m = 2
                    THEN (IF (y % 4 = 0 /\ y % 100 # 0) \/ y % 400 = 0
                            THEN 29 ELSE 28)
                  ELSE IF m \in {4, 6, 9, 11} THEN 30 ELSE 31)

\* C30 as stated: for every text the date of the record that
\* extractExpenseFromOCR returns is a date of the calendar in the form
\* YYYY-MM-DD (a year of 4 digits, a month 01-12, a day of that month).
C30_DateIsCalendarDate ==
  Extracted => C30_CalendarDate(call.result[1].date)
====
